---- MODULE Spec2Model ----
(***************************************************************************)
(* Model of the AQL pre-flight engine of jira-insights-mcp                 *)
(* (src/src/utils/enhanced-aql-utils.ts), of the 'query' operation of the  *)
(* object handler (src/src/handlers/object-handlers.ts) and of the schema  *)
(* context cache (src/src/utils/schema-cache-manager.ts).                  *)
(*                                                                         *)
(* A query is a sequence of one-character strings.  Every regular          *)
(* expression of the source is an operator over such sequences that        *)
(* computes what the JavaScript engine computes: RegExp.test is the        *)
(* existence of a match, String.replace with /g is the leftmost, greedy,   *)
(* non-overlapping rewrite.                                                *)
(***************************************************************************)
EXTENDS Integers, Sequences, FiniteSets, TLC

(***************************************************************************)
(* Characters                                                              *)
(***************************************************************************)

\* \s of the regular expressions and the characters String.trim removes
WsChars == {" ", "\t", "\n", "\r", "\f"}

LowerOf ==
  [A |-> "a", B |-> "b", C |-> "c", D |-> "d", E |-> "e", F |-> "f", G |-> "g",
   H |-> "h", I |-> "i", J |-> "j", K |-> "k", L |-> "l", M |-> "m", N |-> "n",
   O |-> "o", P |-> "p", Q |-> "q", R |-> "r", S |-> "s", T |-> "t", U |-> "u",
   V |-> "v", W |-> "w", X |-> "x", Y |-> "y", Z |-> "z"]

UpperLetters == DOMAIN LowerOf

LowerLetters == {LowerOf[c] : c \in UpperLetters}

DigitChars == {"0", "1", "2", "3", "4", "5", "6", "7", "8", "9"}

\* \w of the regular expressions
WordChars == UpperLetters \cup LowerLetters \cup DigitChars \cup {"_"}

\* the class [=<>!] of invalidOperatorRegex
OperatorChars == {"=", "<", ">", "!"}

\* the class ["'] of the quote patterns
QuoteChars == {"\"", "'"}

\* the class [=<>] of the spacing rewrite and of hasComparisonOperator
ComparisonChars == {"=", "<", ">"}

IsWs(c) == c \in WsChars

IsWord(c) == c \in WordChars

\* String.prototype.toLowerCase on one character
ToLower(c) == IF c \in UpperLetters THEN LowerOf[c] ELSE c

\* String.prototype.toLowerCase
LowerCase(s) == [i \in 1..Len(s) |-> ToLower(s[i])]

(***************************************************************************)
(* Matching primitives                                                     *)
(***************************************************************************)

\* the literal lit matches s at position i; ci is the /i flag
LitAt(s, i, lit, ci) ==
  /\ i >= 1
  /\ i + Len(lit) - 1 <= Len(s)
  /\ \A k \in 1..Len(lit) :
       IF ci THEN ToLower(s[i + k - 1]) = ToLower(lit[k])
             ELSE s[i + k - 1] = lit[k]

\* the position after the longest run of whitespace that starts at i (\s*)
RECURSIVE SkipWs(_, _)
SkipWs(s, i) ==
  IF i <= Len(s) /\ IsWs(s[i]) THEN SkipWs(s, i + 1) ELSE i

\* the position after the longest run of word characters that starts at i (\w*)
RECURSIVE SkipWord(_, _)
SkipWord(s, i) ==
  IF i <= Len(s) /\ IsWord(s[i]) THEN SkipWord(s, i + 1) ELSE i

\* the position after the longest run of non-quote characters from i ([^"']*)
RECURSIVE SkipNonQuote(_, _)
SkipNonQuote(s, i) ==
  IF i <= Len(s) /\ s[i] \notin QuoteChars THEN SkipNonQuote(s, i + 1) ELSE i

\* String.prototype.includes
Includes(s, lit) == \E i \in 1..Len(s) : LitAt(s, i, lit, FALSE)

\* (s.match(/c/g) || []).length
CountChar(s, c) == Cardinality({i \in 1..Len(s) : s[i] = c})

\* s.substring(i - 1, j - 1): the characters at positions i .. j-1
Slice(s, i, j) == [k \in 1..(j - i) |-> s[i + k - 1]]

\* /\s+kw\s+/ matched at position i: the position after the match, 0 if none.
\* Both \s+ are greedy and kw holds no whitespace, so the first \s+ is the
\* whole run of whitespace at i and the second the whole run after kw.
KwMatchEnd(s, i, kw, ci) ==
  IF i <= Len(s) /\ IsWs(s[i])
  THEN LET j == SkipWs(s, i)
           e == j + Len(kw)
       IN IF LitAt(s, j, kw, ci) /\ e <= Len(s) /\ IsWs(s[e])
          THEN SkipWs(s, e)
          ELSE 0
  ELSE 0

\* /\s+kw\s+/.test(s), with /i when ci
TestKw(s, kw, ci) == \E i \in 1..Len(s) : KwMatchEnd(s, i, kw, ci) # 0

\* the least position of a set of positions, 0 when there is none: where a
\* global replace finds its next match
FirstOf(positions) ==
  IF positions = {} THEN 0
  ELSE CHOOSE j \in positions : \A k \in positions : j <= k

\* s.replace(/\s+kw\s+/gi, rep) from position i on: the text up to the next
\* match is copied, the match replaced, and the scan goes on after it
RECURSIVE ReplaceKwFrom(_, _, _, _)
\* the text from i up to the match at j, the replacement and the rest; the
\* text from i on when there is no match (j = 0)
ReplaceKwAt(s, i, kw, rep, j) ==
  IF j = 0 THEN SubSeq(s, i, Len(s))
  ELSE SubSeq(s, i, j - 1) \o rep
       \o ReplaceKwFrom(s, KwMatchEnd(s, j, kw, TRUE), kw, rep)

ReplaceKwFrom(s, i, kw, rep) ==
  ReplaceKwAt(s, i, kw, rep,
              FirstOf({k \in i..Len(s) : KwMatchEnd(s, k, kw, TRUE) # 0}))

ReplaceKw(s, kw, rep) == ReplaceKwFrom(s, 1, kw, rep)

(***************************************************************************)
(* Keywords and messages                                                   *)
(***************************************************************************)

KwAnd == <<"a", "n", "d">>
KwOr == <<"o", "r">>
KwNot == <<"n", "o", "t">>
KwLike == <<"l", "i", "k", "e">>
KwIn == <<"i", "n">>
KwIs == <<"i", "s">>
KwHaving == <<"h", "a", "v", "i", "n", "g">>
KwObjectType == <<"o", "b", "j", "e", "c", "t", "t", "y", "p", "e">>

UpperAnd == <<"A", "N", "D">>
UpperOr == <<"O", "R">>
UpperNot == <<"N", "O", "T">>
UpperLike == <<"L", "I", "K", "E">>
UpperIn == <<"I", "N">>
CanonObjectType == <<"O", "b", "j", "e", "c", "t", "T", "y", "p", "e">>

\* the replacement texts ' AND ', ' OR ', ' NOT ', ' LIKE ', ' IN '
Spaced(kw) == <<" ">> \o kw \o <<" ">>

\* the alternatives (===|!==|<>) of invalidOperatorRegex
InvalidOperators == {<<"=", "=", "=">>, <<"!", "=", "=">>, <<"<", ">">>}

ErrEmpty == "Query cannot be empty"
ErrStructure == "Query missing valid comparison structure"
ErrOperator == "Invalid comparison operator detected"
ErrDoubleQuotes == "Unbalanced double quotes in query"
ErrSingleQuotes == "Unbalanced single quotes in query"
ErrSpacedValue == "Values with spaces must be enclosed in quotes"
ErrLogical == "Logical operators should be uppercase"
ErrParens == "Unbalanced parentheses in query"
ErrEmptyParens == "Empty parentheses detected"
ErrObjectType == "Object type does not exist in the schema"

SugFormat == "Basic query format: [attribute/keyword] [operator] [value]"
SugExample == "Example: ObjectType = \"Application\""
SugOperators == "Use = for equality, != for inequality, < for less than, > for greater than"
SugCaseSensitive == "Note: == is case-sensitive equality, = is case-insensitive"
SugLike == "LIKE operator should be uppercase: LIKE instead of like"
SugIn == "IN operator should be uppercase: IN instead of in"
SugDoubleQuotes == "Ensure all opening double quotes have matching closing quotes"
SugSingleQuotes == "Ensure all opening single quotes have matching closing quotes"
SugSpacedValue == "Example: Name = \"John Doe\" (not Name = John Doe)"
SugMixedQuotes == "Consider using only one type of quotes (preferably double quotes) for consistency"
SugAnd == "Use AND instead of and"
SugOr == "Use OR instead of or"
SugNot == "Use NOT instead of not"
SugComplex == "Consider using parentheses for complex conditions"
SugParens == "Ensure all opening parentheses have matching closing parentheses"
SugEmptyParens == "Remove empty parentheses or add content between them"
SugDidYouMean == "Did you mean one of these"

\* the { errors, suggestions } pair every validate* function returns
Report(e, g) == [errors |-> e, suggestions |-> g]

\* one entry of errors or suggestions: its text and the names built into it
Msg(text, names) == [text |-> text, names |-> names]

Plain(texts) == [i \in 1..Len(texts) |-> Msg(texts[i], <<>>)]

\* errors.push(...e) and suggestions.push(...g) when cond holds
When(cond, e, g) ==
  IF cond THEN Report(Plain(e), Plain(g)) ELSE Report(<<>>, <<>>)

\* errors.push(...r.errors); suggestions.push(...r.suggestions)
Push(acc, r) ==
  Report(acc.errors \o r.errors, acc.suggestions \o r.suggestions)

(***************************************************************************)
(* The pattern matchers                                                    *)
(***************************************************************************)

\* /\w+\s*\(/i.test(aql)
HasFunction(aql) ==
  \E i \in 1..Len(aql) :
    /\ IsWord(aql[i])
    /\ LET j == SkipWs(aql, i + 1) IN j <= Len(aql) /\ aql[j] = "("

hasValidSyntaxStructure(aql) ==
  LET hasComparisonOperator ==
        \/ \E i \in 1..Len(aql) : aql[i] \in ComparisonChars
        \/ TestKw(aql, KwLike, TRUE)
        \/ TestKw(aql, KwIn, TRUE)
        \/ TestKw(aql, KwIs, TRUE)
      hasFunction == HasFunction(aql)
      hasHaving == TestKw(aql, KwHaving, TRUE)
  IN hasComparisonOperator \/ hasFunction \/ hasHaving

\* /[^=<>!]\s*(===|!==|<>)\s*[^=<>!]/g.test(aql)
InvalidOperatorTest(aql) ==
  \E i \in 1..Len(aql) :
    /\ aql[i] \notin OperatorChars
    /\ \E j \in (i + 1)..SkipWs(aql, i + 1) :
         \E op \in InvalidOperators :
           /\ LitAt(aql, j, op, FALSE)
           /\ \E k \in (j + Len(op))..SkipWs(aql, j + Len(op)) :
                k <= Len(aql) /\ aql[k] \notin OperatorChars

\* /\s+in\s*\(/.test(aql), with /i when ci
InParenTest(aql, ci) ==
  \E i \in 1..Len(aql) :
    /\ IsWs(aql[i])
    /\ LET j == SkipWs(aql, i)
           k == SkipWs(aql, j + Len(KwIn))
       IN /\ LitAt(aql, j, IF ci THEN KwIn ELSE UpperIn, ci)
          /\ k <= Len(aql)
          /\ aql[k] = "("

validateOperators(aql) ==
  LET r1 == When(InvalidOperatorTest(aql), <<ErrOperator>>, <<SugOperators>>)
      r2 == When(Includes(aql, <<"=", "=">>), <<>>, <<SugCaseSensitive>>)
      r3 == When(TestKw(aql, KwLike, TRUE) /\ ~TestKw(aql, UpperLike, FALSE),
                 <<>>, <<SugLike>>)
      r4 == When(InParenTest(aql, TRUE) /\ ~InParenTest(aql, FALSE),
                 <<>>, <<SugIn>>)
  IN Push(Push(Push(r1, r2), r3), r4)

\* the negative lookahead (?!\s*["']) at position p
NotQuoteAhead(s, p) ==
  LET m == SkipWs(s, p) IN ~(m <= Len(s) /\ s[m] \in QuoteChars)

\* /=\s*(\w+\s+\w+)(?!\s*["'])/g.test(aql).  \s*, the first \w+ and \s+ are
\* forced to whole runs; the second \w+ may stop anywhere in its run, and
\* inside the run the lookahead sees a word character.
ValueWithSpaceTest(aql) ==
  \E i \in 1..Len(aql) :
    /\ aql[i] = "="
    /\ LET p == SkipWs(aql, i + 1)
           q == SkipWord(aql, p)
           r == SkipWs(aql, q)
           t == SkipWord(aql, r)
       IN /\ q > p
          /\ r > q
          /\ t > r
          /\ (NotQuoteAhead(aql, t) \/ t - r >= 2)

validateQuotes(aql) ==
  LET doubleQuotes == CountChar(aql, "\"")
      singleQuotes == CountChar(aql, "'")
      r1 == When(doubleQuotes % 2 # 0, <<ErrDoubleQuotes>>, <<SugDoubleQuotes>>)
      r2 == When(singleQuotes % 2 # 0, <<ErrSingleQuotes>>, <<SugSingleQuotes>>)
      r3 == When(ValueWithSpaceTest(aql), <<ErrSpacedValue>>, <<SugSpacedValue>>)
      r4 == When(doubleQuotes > 0 /\ singleQuotes > 0, <<>>, <<SugMixedQuotes>>)
  IN Push(Push(Push(r1, r2), r3), r4)

\* /\s+kw\s+/i.test(aql) && !/\s+KW\s+/.test(aql)
LowercaseOperator(aql, kw, upper) ==
  TestKw(aql, kw, TRUE) /\ ~TestKw(aql, upper, FALSE)

validateLogicalOperators(aql) ==
  LET r1 == When(LowercaseOperator(aql, KwAnd, UpperAnd), <<ErrLogical>>, <<SugAnd>>)
      r2 == When(LowercaseOperator(aql, KwOr, UpperOr), <<ErrLogical>>, <<SugOr>>)
      r3 == When(LowercaseOperator(aql, KwNot, UpperNot), <<ErrLogical>>, <<SugNot>>)
      r4 == When(/\ Includes(aql, Spaced(UpperAnd)) \/ Includes(aql, Spaced(UpperOr))
                 /\ Includes(aql, Spaced(UpperOr))
                 /\ ~Includes(aql, <<"(">>),
                 <<>>, <<SugComplex>>)
  IN Push(Push(Push(r1, r2), r3), r4)

\* a variant that compares the counts only and accepts '()'
validateParenthesesCountOnly(aql) ==
  When(CountChar(aql, "(") # CountChar(aql, ")"), <<ErrParens>>, <<SugParens>>)

validateParentheses(aql) ==
  LET openParenCount == CountChar(aql, "(")
      closeParenCount == CountChar(aql, ")")
      r1 == When(openParenCount # closeParenCount, <<ErrParens>>, <<SugParens>>)
      r2 == When(Includes(aql, <<"(", ")">>), <<ErrEmptyParens>>, <<SugEmptyParens>>)
  IN Push(r1, r2)

(***************************************************************************)
(* Schema-aware validation                                                 *)
(***************************************************************************)

Min3(a, b, c) ==
  IF a <= b THEN (IF a <= c THEN a ELSE c) ELSE (IF b <= c THEN b ELSE c)

\* a variant without the substitution step
levenshteinDistanceNoSubstitution(a, b) ==
  LET matrix[i \in 0..Len(b), j \in 0..Len(a)] ==
        IF i = 0 THEN j
        ELSE IF j = 0 THEN i
        ELSE IF b[i] = a[j] THEN matrix[i - 1, j - 1]
        ELSE IF matrix[i, j - 1] <= matrix[i - 1, j] THEN matrix[i, j - 1] + 1
        ELSE matrix[i - 1, j] + 1
  IN matrix[Len(b), Len(a)]

levenshteinDistance(a, b) ==
  LET matrix[i \in 0..Len(b), j \in 0..Len(a)] ==
        IF i = 0 THEN j
        ELSE IF j = 0 THEN i
        ELSE IF b[i] = a[j] THEN matrix[i - 1, j - 1]
        ELSE Min3(matrix[i - 1, j - 1] + 1,
                  matrix[i, j - 1] + 1,
                  matrix[i - 1, j] + 1)
  IN matrix[Len(b), Len(a)]

\* the default of findSimilarStrings' maxDistance
DefaultMaxDistance == 3

\* a matcher that compares without toLowerCase
findSimilarStringsCaseSensitive(target, candidates, maxDistance) ==
  SelectSeq(candidates,
            LAMBDA candidate : levenshteinDistance(target, candidate) <= maxDistance)

findSimilarStrings(target, candidates, maxDistance) ==
  SelectSeq(candidates,
            LAMBDA candidate :
              levenshteinDistance(LowerCase(target), LowerCase(candidate))
                <= maxDistance)

\* /objectType\s*=\s*["']([^"']+)["']/i matched at position i: the pair
\* <<start of the captured name, position of the closing quote>>, <<>> if none
ObjectTypeMatchAt(aql, i) ==
  IF ~LitAt(aql, i, KwObjectType, TRUE) THEN <<>>
  ELSE LET e == SkipWs(aql, i + Len(KwObjectType))
       IN IF ~(e <= Len(aql) /\ aql[e] = "=") THEN <<>>
          ELSE LET q == SkipWs(aql, e + 1)
               IN IF ~(q <= Len(aql) /\ aql[q] \in QuoteChars) THEN <<>>
                  ELSE LET c == SkipNonQuote(aql, q + 1)
                       IN IF c > q + 1 /\ c <= Len(aql) THEN <<q + 1, c>>
                          ELSE <<>>

\* the captured names of aql.match(/objectType\s*=\s*["']([^"']+)["']/gi),
\* in the order of the matches, searching from position i on
RECURSIVE ObjectTypeNamesFrom(_, _)
\* the name captured by the match m, then the names of the later matches
ObjectTypeNamesAfter(aql, m) ==
  <<Slice(aql, m[1], m[2])>> \o ObjectTypeNamesFrom(aql, m[2] + 1)

\* the names from the match at position j on; none when j = 0
ObjectTypeNamesAt(aql, j) ==
  IF j = 0 THEN <<>> ELSE ObjectTypeNamesAfter(aql, ObjectTypeMatchAt(aql, j))

ObjectTypeNamesFrom(aql, i) ==
  ObjectTypeNamesAt(aql,
                    FirstOf({k \in i..Len(aql) : ObjectTypeMatchAt(aql, k) # <<>>}))

InSeq(x, seq) == \E k \in 1..Len(seq) : seq[k] = x

\* an iteration whose membership test lost its negation
CheckObjectTypeInverted(objectType, schema) ==
  IF ~InSeq(objectType, schema.objectTypes) THEN Report(<<>>, <<>>)
  ELSE Report(<<Msg(ErrObjectType, <<objectType>>)>>, <<>>)

\* what one iteration of the loop over objectTypeMatches pushes
CheckObjectType(objectType, schema) ==
  IF InSeq(objectType, schema.objectTypes) THEN Report(<<>>, <<>>)
  ELSE LET similarTypes ==
             findSimilarStrings(objectType, schema.objectTypes, DefaultMaxDistance)
       IN Report(<<Msg(ErrObjectType, <<objectType>>)>>,
                 IF Len(similarTypes) > 0
                 THEN <<Msg(SugDidYouMean, similarTypes)>>
                 ELSE <<>>)

RECURSIVE CheckObjectTypes(_, _)
CheckObjectTypes(names, schema) ==
  IF names = <<>> THEN Report(<<>>, <<>>)
  ELSE Push(CheckObjectType(Head(names), schema),
            CheckObjectTypes(Tail(names), schema))

validateAgainstSchema(aql, schema) ==
  CheckObjectTypes(ObjectTypeNamesFrom(aql, 1), schema)

(***************************************************************************)
(* Auto-fixer and formatter                                                *)
(***************************************************************************)

\* s.replace(/\bobjecttype\b/gi, 'ObjectType') from position i on
RECURSIVE ReplaceObjectTypeFrom(_, _)
\* /\bobjecttype\b/i matches at position k
ObjectTypeAt(s, k) ==
  /\ LitAt(s, k, KwObjectType, TRUE)
  /\ (k = 1 \/ ~IsWord(s[k - 1]))
  /\ (k + Len(KwObjectType) > Len(s) \/ ~IsWord(s[k + Len(KwObjectType)]))

ReplaceObjectTypeAt(s, i, j) ==
  IF j = 0 THEN SubSeq(s, i, Len(s))
  ELSE SubSeq(s, i, j - 1) \o CanonObjectType
       \o ReplaceObjectTypeFrom(s, j + Len(KwObjectType))

ReplaceObjectTypeFrom(s, i) ==
  ReplaceObjectTypeAt(s, i, FirstOf({k \in i..Len(s) : ObjectTypeAt(s, k)}))

\* s.replace(/([=<>])/g, ' $1 ')
RECURSIVE SpaceOperators(_)
SpaceOperatorAt(s, j) ==
  IF j = 0 THEN s
  ELSE SubSeq(s, 1, j - 1) \o <<" ", s[j], " ">>
       \o SpaceOperators(SubSeq(s, j + 1, Len(s)))

SpaceOperators(s) ==
  SpaceOperatorAt(s, FirstOf({k \in 1..Len(s) : s[k] \in ComparisonChars}))

\* s.replace(/\s+/g, ' ') from position i on
RECURSIVE CollapseWsFrom(_, _)
CollapseWsAt(s, i, j) ==
  IF j = 0 THEN SubSeq(s, i, Len(s))
  ELSE SubSeq(s, i, j - 1) \o <<" ">> \o CollapseWsFrom(s, SkipWs(s, j))

CollapseWsFrom(s, i) ==
  CollapseWsAt(s, i, FirstOf({k \in i..Len(s) : IsWs(s[k])}))

\* the repetition (?:\s+\w+)+ from position q, the end of a word: the triple
\* <<end of the last word, end of the word before it, start of the last word>>
\* after as many repetitions as there are; q in all three when there is none
RECURSIVE MoreWords(_, _, _, _)
MoreWords(s, q, prev, start) ==
  LET r == SkipWs(s, q)
      t == SkipWord(s, r)
  IN IF r > q /\ t > r THEN MoreWords(s, t, q, r) ELSE <<q, prev, start>>

\* /=\s*(\w+(?:\s+\w+)+)(?!\s*["'])/ matched at position i: the pair
\* <<start of the captured value, position after the match>>, <<>> if none.
\* The engine takes every word it can; when the lookahead then fails it gives
\* back one character of the last word, and if that word has only one, the
\* whole last repetition.
QuoteMatchAt(s, i) ==
  IF s[i] # "=" THEN <<>>
  ELSE LET p == SkipWs(s, i + 1)
           q == SkipWord(s, p)
           w == MoreWords(s, q, q, q)
       IN IF q = p \/ w[1] = q THEN <<>>
          ELSE IF NotQuoteAhead(s, w[1]) THEN <<p, w[1]>>
          ELSE IF w[1] - w[3] >= 2 THEN <<p, w[1] - 1>>
          ELSE IF w[2] > q THEN <<p, w[2]>>
          ELSE <<>>

\* s.replace(/=\s*(\w+(?:\s+\w+)+)(?!\s*["'])/g, '= "$1"') from position i on
RECURSIVE QuoteValuesFrom(_, _)
\* the text from i up to the match that starts at j, whose captured value is
\* at m[1] .. m[2]-1, then the quoted value and the rest
QuoteValuesAfter(s, i, j, m) ==
  SubSeq(s, i, j - 1) \o <<"=", " ", "\"">> \o SubSeq(s, m[1], m[2] - 1)
  \o <<"\"">> \o QuoteValuesFrom(s, m[2])

QuoteValuesAt(s, i, j) ==
  IF j = 0 THEN SubSeq(s, i, Len(s))
  ELSE QuoteValuesAfter(s, i, j, QuoteMatchAt(s, j))

QuoteValuesFrom(s, i) ==
  QuoteValuesAt(s, i, FirstOf({k \in i..Len(s) : QuoteMatchAt(s, k) # <<>>}))

\* the rewrites attemptQueryFix and formatAqlForRequest both apply, in order
FixCasing(s) ==
  ReplaceKw(ReplaceKw(ReplaceKw(s, KwAnd, Spaced(UpperAnd)),
                      KwOr, Spaced(UpperOr)),
            KwNot, Spaced(UpperNot))

FixOperatorCasing(s) ==
  ReplaceKw(ReplaceKw(s, KwLike, Spaced(UpperLike)), KwIn, Spaced(UpperIn))

FixObjectType(s) == ReplaceObjectTypeFrom(s, 1)

FixSpacing(s) == CollapseWsFrom(SpaceOperators(s), 1)

FixQuoting(s) == QuoteValuesFrom(s, 1)

\* an absent value (undefined) is <<>>, a present value v is <<v>>
Undefined == <<>>

Defined(v) == <<v>>

\* a fixer whose copy of the rewrite lost the spacing step
attemptQueryFixUnspaced(aql) ==
  LET fixedQuery == FixQuoting(FixObjectType(FixOperatorCasing(FixCasing(aql))))
  IN IF fixedQuery # aql THEN Defined(fixedQuery) ELSE Undefined

\* a fixer that returns its rewrite without comparing it with the input
attemptQueryFixUncompared(aql) ==
  Defined(FixQuoting(FixSpacing(FixObjectType(FixOperatorCasing(FixCasing(aql))))))

attemptQueryFix(aql) ==
  LET fixedQuery ==
        FixQuoting(FixSpacing(FixObjectType(FixOperatorCasing(FixCasing(aql)))))
  IN IF fixedQuery # aql THEN Defined(fixedQuery) ELSE Undefined

\* a variant that keeps the leading and trailing whitespace
Untrimmed(s) == s

\* String.prototype.trim
RECURSIVE TrimLeft(_)
TrimLeft(s) == IF s # <<>> /\ IsWs(Head(s)) THEN TrimLeft(Tail(s)) ELSE s

RECURSIVE TrimRight(_)
TrimRight(s) ==
  IF s # <<>> /\ IsWs(s[Len(s)]) THEN TrimRight(SubSeq(s, 1, Len(s) - 1)) ELSE s

Trim(s) == TrimRight(TrimLeft(s))

formatAqlForRequest(aql, autoFix) ==
  LET formattedAql == Trim(aql)
  IN IF ~autoFix THEN formattedAql
     ELSE FixQuoting(FixSpacing(FixObjectType(FixOperatorCasing(
            FixCasing(formattedAql)))))

(***************************************************************************)
(* The validator                                                           *)
(***************************************************************************)

\* a validator that decides isValid before the schema errors are pushed
IsValidBeforeSchema(errors) ==
  \A i \in 1..Len(errors) : errors[i].text = ErrObjectType

\* isValid: errors.length === 0
IsValid(errors) == Len(errors) = 0

validateAqlQuery(aql, schemaContext) ==
  IF aql = <<>> \/ Trim(aql) = <<>>
  THEN [isValid |-> FALSE, errors |-> Plain(<<ErrEmpty>>), suggestions |-> <<>>,
        fixedQuery |-> Undefined]
  ELSE LET structure == When(~hasValidSyntaxStructure(aql),
                             <<ErrStructure>>, <<SugFormat, SugExample>>)
           schemaErrors == IF schemaContext # Undefined
                           THEN validateAgainstSchema(aql, schemaContext[1])
                           ELSE Report(<<>>, <<>>)
           all == Push(Push(Push(Push(Push(structure,
                                           validateOperators(aql)),
                                      validateQuotes(aql)),
                                 validateLogicalOperators(aql)),
                            validateParentheses(aql)),
                       schemaErrors)
       IN [isValid |-> IsValid(all.errors),
           errors |-> all.errors,
           suggestions |-> all.suggestions,
           fixedQuery |-> IF Len(all.errors) > 0 THEN attemptQueryFix(aql)
                          ELSE Undefined]

(***************************************************************************)
(* Inputs                                                                  *)
(***************************************************************************)

\* the longest query, counted in pieces of Frags
MaxFrags == 4

\* the pieces input queries are made of
Frags ==
  {<<"a">>, <<" ">>, <<"=">>, <<"\"">>, <<"(">>, <<")">>, KwAnd, KwIn,
   Spaced(UpperAnd), KwObjectType \o <<"=">>}

RECURSIVE Concat(_)
Concat(pieces) ==
  IF pieces = <<>> THEN <<>> ELSE Head(pieces) \o Concat(Tail(pieces))

Queries == {Concat(pieces) : pieces \in UNION {[1..n -> Frags] : n \in 0..MaxFrags}}

\* a schema context in the shape of sampleSchemaContext
SampleContext ==
  [objectTypes |-> <<<<"a">>, <<"a", "n", "d">>>>,
   attributes |-> (<<"a">> :> <<<<"n">>>>) @@ (<<"a", "n", "d">> :> <<<<"n">>, <<"r">>>>),
   referenceTypes |-> <<<<"t">>>>]

Contexts == {Undefined, Defined(SampleContext)}

\* what the remote service holds of a schema: its object types, each with
\* the attributes objectTypeAttributesByObjectType returns for it
OneType ==
  <<[id |-> 1, name |-> <<"a">>,
     attributes |-> <<[name |-> <<"n">>, type |-> 0, referenceType |-> Undefined],
                      [name |-> <<"r">>, type |-> 1, referenceType |-> Defined(<<"t">>)]>>]>>

TwoTypes ==
  OneType \o
  <<[id |-> 2, name |-> <<"a", "n", "d">>,
     attributes |-> <<[name |-> <<"n">>, type |-> 1, referenceType |-> Undefined]>>]>>

SchemaIds == {"6"}

Requests == {1, 2}

(***************************************************************************)
(* State                                                                   *)
(***************************************************************************)

VARIABLES
  query,          \* the text the test driver works on
  step,           \* where the test driver is
  context,        \* the schema context the driver validated with
  result,         \* validateAqlQuery(query, context)
  formatted,      \* formatAqlForRequest(query)
  reformatted,    \* formatAqlForRequest(formatted)
  fixed,          \* attemptQueryFix(query)
  revalidation,   \* validateAqlQuery(fixed)
  req,            \* per request: args.aql and args.schemaId
  pc,             \* per request: where its handler is suspended
  schemaCache,    \* per request: schemaCache of the manager made for it
  building,       \* per request: schemaContext under construction, types left
  schemaContext,  \* per request: the handler's schemaContext
  validation,     \* per request: the handler's validation
  formattedAql,   \* per request: the handler's formattedAql
  dispatched,     \* per request: the qlQuery of every objectsByAql call
  response,       \* per request: what the handler returned or threw
  warned,         \* per request: 'Could not load schema context' was logged
  remoteTypes,    \* the object types the remote service holds
  now,            \* Date.now()
  attributeFetches, \* per request: the attribute fetches that have ended
  target,         \* findSimilarStrings: the name looked for
  candidates,     \* findSimilarStrings: the names to choose from
  maxDistance,    \* findSimilarStrings: the distance allowed
  similar,        \* findSimilarStrings(target, candidates, maxDistance)
  calls,          \* the calls of the exported functions made so far
  lastIndex,      \* lastIndex of the last call's valueWithSpaceRegex object
  error,          \* the error objectsByAql failed with
  advice,         \* getContextualErrorMessage(error)
  allSchemas,     \* the server's manager: this.allSchemas
  initialized,    \* the server's manager: this.initialized
  managerCache,   \* the server's manager: this.schemaCache
  task,           \* per call on the server's manager: where it is suspended
  listed          \* the schemas listResources got from getAllSchemas()

driverVars ==
  <<query, step, context, result, formatted, reformatted, fixed, revalidation>>

handlerVars ==
  <<req, pc, schemaCache, building, schemaContext, validation, formattedAql,
    dispatched, response, warned, remoteTypes, now, attributeFetches>>

matcherVars == <<target, candidates, maxDistance, similar>>

repeatVars == <<calls, lastIndex>>

adviceVars == <<error, advice>>

managerVars == <<allSchemas, initialized, managerCache, task, listed>>

utilVars == <<matcherVars, repeatVars, adviceVars, managerVars>>

vars == <<driverVars, handlerVars, utilVars>>

(***************************************************************************)
(* The test driver: the exported functions applied to one query            *)
(***************************************************************************)

DriverOff ==
  /\ query = <<>>
  /\ step = "off"
  /\ context = Undefined
  /\ result = Undefined
  /\ formatted = Undefined
  /\ reformatted = Undefined
  /\ fixed = Undefined
  /\ revalidation = Undefined

DriverInit ==
  /\ query \in Queries
  /\ step = "start"
  /\ context = Undefined
  /\ result = Undefined
  /\ formatted = Undefined
  /\ reformatted = Undefined
  /\ fixed = Undefined
  /\ revalidation = Undefined

\* const validation = validateAqlQuery(test.query, sampleSchemaContext)
Validate ==
  /\ step = "start"
  /\ \E c \in Contexts :
       /\ context' = c
       /\ result' = Defined(validateAqlQuery(query, c))
  /\ step' = "validated"
  /\ UNCHANGED <<query, formatted, reformatted, fixed, revalidation>>
  /\ UNCHANGED <<handlerVars, utilVars>>

\* const formattedQuery = formatAqlForRequest(test.query)
Format ==
  /\ step = "start"
  /\ formatted' = Defined(formatAqlForRequest(query, TRUE))
  /\ step' = "formatted"
  /\ UNCHANGED <<query, context, result, reformatted, fixed, revalidation>>
  /\ UNCHANGED <<handlerVars, utilVars>>

\* the formatter applied to its own output
Reformat ==
  /\ step = "formatted"
  /\ reformatted' = Defined(formatAqlForRequest(formatted[1], TRUE))
  /\ step' = "reformatted"
  /\ UNCHANGED <<query, context, result, formatted, fixed, revalidation>>
  /\ UNCHANGED <<handlerVars, utilVars>>

\* attemptQueryFix(aql), and the validation of the query it is called for
Fix ==
  /\ step = "start"
  /\ fixed' = attemptQueryFix(query)
  /\ result' = Defined(validateAqlQuery(query, Undefined))
  /\ step' = "fixed"
  /\ UNCHANGED <<query, context, formatted, reformatted, revalidation>>
  /\ UNCHANGED <<handlerVars, utilVars>>

\* the validator run again on the fixed query
Revalidate ==
  /\ step = "fixed"
  /\ fixed # Undefined
  /\ revalidation' = Defined(validateAqlQuery(fixed[1], Undefined))
  /\ step' = "revalidated"
  /\ UNCHANGED <<query, context, result, formatted, reformatted, fixed>>
  /\ UNCHANGED <<handlerVars, utilVars>>

\* the formatter applied to the query the fixer was applied to
FormatSame ==
  /\ step = "fixed"
  /\ formatted' = Defined(formatAqlForRequest(query, TRUE))
  /\ step' = "compared"
  /\ UNCHANGED <<query, context, result, reformatted, fixed, revalidation>>
  /\ UNCHANGED <<handlerVars, utilVars>>

\* the validator applied to the query and to the formatter's output for it
ValidateFormatted ==
  /\ step = "formatted"
  /\ result' = Defined(validateAqlQuery(query, Undefined))
  /\ revalidation' = Defined(validateAqlQuery(formatted[1], Undefined))
  /\ step' = "checked"
  /\ UNCHANGED <<query, context, formatted, reformatted, fixed>>
  /\ UNCHANGED <<handlerVars, utilVars>>

DriverNext ==
  \/ Validate
  \/ Format
  \/ Reformat
  \/ Fix
  \/ Revalidate
  \/ FormatSame
  \/ ValidateFormatted

(***************************************************************************)
(* SchemaCacheManager.getSchemaForValidation, as the 'query' operation     *)
(* calls it: the exported function builds a new manager for every call     *)
(***************************************************************************)

\* Cache expiration time (1 hour)
CACHE_EXPIRATION_MS == 3600000

\* the number of object types whose attributes are fetched
OBJECT_TYPE_LIMIT == 10

\* one object type more than getSchemaForValidation fetches attributes for
ManyTypes ==
  [i \in 1..(OBJECT_TYPE_LIMIT + 1) |->
     [id |-> i, name |-> [k \in 1..i |-> "t"],
      attributes |-> <<[name |-> <<"n">>, type |-> 1,
                        referenceType |-> Defined(<<"r">>)]>>]]

isCacheExpired(timestamp) == now - timestamp > CACHE_EXPIRATION_MS

\* new Map<string, CacheEntry>()
EmptyCache == [id \in SchemaIds |-> Undefined]

NoBuilding == [ctx |-> Undefined, todo |-> <<>>]

Set(f, r, v) == [f EXCEPT ![r] = v]

Min(a, b) == IF a <= b THEN a ELSE b

\* a handler without the catch around getSchemaForValidation: the failure
\* reaches the outer catch and the request ends in handleError
SchemaLoadRethrown(r) ==
  /\ schemaContext' = Set(schemaContext, r, Undefined)
  /\ building' = Set(building, r, NoBuilding)
  /\ warned' = Set(warned, r, TRUE)
  /\ pc' = Set(pc, r, "done")
  /\ response' = Set(response, r,
       Defined([kind |-> "handled_error", validation |-> Undefined,
                suggestedFix |-> Undefined, examplesFor |-> Undefined,
                qlQuery |-> Undefined, wasFixed |-> FALSE]))
  /\ UNCHANGED schemaCache

\* the catch of the handler around getSchemaForValidation: schemaContext
\* stays undefined and the handler goes on to validate
SchemaLoadFailed(r) ==
  /\ schemaContext' = Set(schemaContext, r, Undefined)
  /\ building' = Set(building, r, NoBuilding)
  /\ warned' = Set(warned, r, TRUE)
  /\ pc' = Set(pc, r, "validate")
  /\ UNCHANGED <<schemaCache, response>>

\* this.schemaCache.set(schemaId, ...); return schemaContext
SchemaLoaded(r, ctx) ==
  /\ schemaCache' =
       Set(schemaCache, r,
           [schemaCache[r] EXCEPT ![req[r].schemaId[1]] =
              Defined([data |-> ctx, timestamp |-> now])])
  /\ schemaContext' = Set(schemaContext, r, Defined(ctx))
  /\ building' = Set(building, r, NoBuilding)
  /\ pc' = Set(pc, r, "validate")
  /\ UNCHANGED <<response, warned>>

\* jiraClient.getAssetsApi() of the handler resolves or throws
Start(r) ==
  /\ pc[r] = "start"
  /\ \/ /\ pc' = Set(pc, r, "query")
        /\ UNCHANGED response
     \/ /\ pc' = Set(pc, r, "done")
        /\ response' = Set(response, r,
             Defined([kind |-> "handled_error", validation |-> Undefined,
                      suggestedFix |-> Undefined, examplesFor |-> Undefined,
                      qlQuery |-> Undefined, wasFixed |-> FALSE]))
  /\ UNCHANGED <<req, schemaCache, building, schemaContext, validation,
                 formattedAql, dispatched, warned, remoteTypes, now,
                 attributeFetches>>
  /\ UNCHANGED <<driverVars, utilVars>>

\* case 'query' up to its first await: the check of args.aql, and with a
\* schemaId the new manager's cache lookup
QueryCase(r) ==
  /\ pc[r] = "query"
  /\ IF req[r].aql = <<>>
     THEN /\ pc' = Set(pc, r, "done")
          /\ response' = Set(response, r,
               Defined([kind |-> "invalid_params", validation |-> Undefined,
                        suggestedFix |-> Undefined, examplesFor |-> Undefined,
                        qlQuery |-> Undefined, wasFixed |-> FALSE]))
          /\ UNCHANGED <<schemaCache, schemaContext>>
     ELSE IF req[r].schemaId = Undefined
     THEN /\ pc' = Set(pc, r, "validate")
          /\ UNCHANGED <<schemaCache, schemaContext, response>>
     ELSE LET cachedSchema == EmptyCache[req[r].schemaId[1]]
          IN /\ schemaCache' = Set(schemaCache, r, EmptyCache)
             /\ IF /\ cachedSchema # Undefined
                   /\ ~isCacheExpired(cachedSchema[1].timestamp)
                THEN /\ schemaContext' =
                          Set(schemaContext, r, Defined(cachedSchema[1].data))
                     /\ pc' = Set(pc, r, "validate")
                ELSE /\ pc' = Set(pc, r, "gsv_api")
                     /\ UNCHANGED schemaContext
             /\ UNCHANGED response
  /\ UNCHANGED <<req, building, validation, formattedAql, dispatched,
                 warned, remoteTypes, now,
                 attributeFetches>>
  /\ UNCHANGED <<driverVars, utilVars>>

\* await jiraClient.getAssetsApi(); then schemaFind is requested
GsvApi(r) ==
  /\ pc[r] = "gsv_api"
  /\ \/ /\ pc' = Set(pc, r, "gsv_schemaFind")
        /\ UNCHANGED <<schemaCache, building, schemaContext, response, warned>>
     \/ SchemaLoadFailed(r)
  /\ UNCHANGED <<req, validation, formattedAql, dispatched, remoteTypes, now,
                 attributeFetches>>
  /\ UNCHANGED <<driverVars, utilVars>>

\* await assetsApi.schemaFind({ id: schemaId }); then objectTypesBySchema
\* is requested
GsvSchemaFind(r) ==
  /\ pc[r] = "gsv_schemaFind"
  /\ \/ /\ pc' = Set(pc, r, "gsv_objectTypes")
        /\ UNCHANGED <<schemaCache, building, schemaContext, response, warned>>
     \/ SchemaLoadFailed(r)
  /\ UNCHANGED <<req, validation, formattedAql, dispatched, remoteTypes, now,
                 attributeFetches>>
  /\ UNCHANGED <<driverVars, utilVars>>

\* await assetsApi.objectTypesBySchema(...); the context is started and the
\* attributes of the first object type are requested
GsvObjectTypes(r) ==
  /\ pc[r] = "gsv_objectTypes"
  /\ \/ LET ctx == [objectTypes |->
                      [i \in 1..Len(remoteTypes) |-> remoteTypes[i].name],
                    attributes |-> <<>>,
                    referenceTypes |-> <<>>]
            objectTypesToProcess ==
              SubSeq(remoteTypes, 1, Min(OBJECT_TYPE_LIMIT, Len(remoteTypes)))
        IN IF objectTypesToProcess = <<>>
           THEN SchemaLoaded(r, ctx)
           ELSE /\ building' = Set(building, r,
                     [ctx |-> Defined(ctx), todo |-> objectTypesToProcess])
                /\ pc' = Set(pc, r, "gsv_attributes")
                /\ UNCHANGED <<schemaCache, schemaContext, response, warned>>
     \/ SchemaLoadFailed(r)
  /\ UNCHANGED <<req, validation, formattedAql, dispatched, remoteTypes, now,
                 attributeFetches>>
  /\ UNCHANGED <<driverVars, utilVars>>

\* the names of the reference types of the attributes of type 1
RECURSIVE ReferenceTypeNames(_)
ReferenceTypeNames(attributes) ==
  IF attributes = <<>> THEN <<>>
  ELSE (IF Head(attributes).type = 1 /\ Head(attributes).referenceType # Undefined
        THEN Head(attributes).referenceType
        ELSE <<>>)
       \o ReferenceTypeNames(Tail(attributes))

\* a variant in which a failed attribute fetch ends the whole resolution
GsvAttributesAborting(r) ==
  /\ pc[r] = "gsv_attributes"
  /\ attributeFetches' =
       Set(attributeFetches, r,
           Append(attributeFetches[r],
                  [objectTypeId |-> Head(building[r].todo).id, ok |-> FALSE]))
  /\ SchemaLoadFailed(r)
  /\ UNCHANGED <<req, validation, formattedAql, dispatched, remoteTypes, now>>
  /\ UNCHANGED <<driverVars, utilVars>>

\* one turn of the loop over objectTypesToProcess: the attributes of the
\* object type arrive, or the request fails and the catch only warns
GsvAttributes(r) ==
  /\ pc[r] = "gsv_attributes"
  /\ LET objectType == Head(building[r].todo)
         rest == Tail(building[r].todo)
         old == building[r].ctx[1]
         folded ==
           [old EXCEPT
              !.attributes =
                 (objectType.name :>
                    [i \in 1..Len(objectType.attributes) |->
                       objectType.attributes[i].name]) @@ old.attributes,
              !.referenceTypes =
                 old.referenceTypes \o ReferenceTypeNames(objectType.attributes)]
     IN \E ok \in BOOLEAN :
          LET ctx == IF ok THEN folded ELSE old
          IN /\ attributeFetches' =
                  Set(attributeFetches, r,
                      Append(attributeFetches[r],
                             [objectTypeId |-> objectType.id, ok |-> ok]))
             /\ IF rest = <<>>
                THEN SchemaLoaded(r, ctx)
                ELSE /\ building' =
                          Set(building, r, [ctx |-> Defined(ctx), todo |-> rest])
                     /\ UNCHANGED <<pc, schemaCache, schemaContext, response,
                                    warned>>
  /\ UNCHANGED <<req, validation, formattedAql, dispatched, remoteTypes, now>>
  /\ UNCHANGED <<driverVars, utilVars>>

(***************************************************************************)
(* The 'query' operation of the object handler                             *)
(***************************************************************************)

\* validation.fixedQuery || args.aql
OrElse(optional, other) ==
  IF optional # Undefined /\ optional[1] # <<>> THEN optional[1] ELSE other

\* a handler that runs the suggested fix instead of rejecting the query
RejectsUnfixable(v) == ~v.isValid /\ v.fixedQuery = Undefined

\* a handler that never returns the error response
RejectsNothing(v) == FALSE

\* if (!validation.isValid): the error response is returned
RejectsQuery(v) == ~v.isValid

\* a handler that sends queryToUse instead of formattedAql
UnformattedForDispatch(v, aql) == OrElse(v.fixedQuery, aql)

\* const queryToUse = validation.fixedQuery || args.aql;
\* const formattedAql = formatAqlForRequest(queryToUse)
FormattedForDispatch(v, aql) ==
  formatAqlForRequest(OrElse(v.fixedQuery, aql), TRUE)

\* from validateAqlQuery to the error response or the objectsByAql request
ValidateStep(r) ==
  /\ pc[r] = "validate"
  /\ LET v == validateAqlQuery(req[r].aql, schemaContext[r])
     IN /\ validation' = Set(validation, r, Defined(v))
        /\ IF RejectsQuery(v)
           THEN /\ response' = Set(response, r,
                     Defined([kind |-> "invalid_query", validation |-> Defined(v),
                              suggestedFix |-> v.fixedQuery,
                              examplesFor |-> req[r].schemaId,
                              qlQuery |-> Undefined, wasFixed |-> FALSE]))
                /\ pc' = Set(pc, r, "done")
                /\ UNCHANGED <<formattedAql, dispatched>>
           ELSE LET text == FormattedForDispatch(v, req[r].aql)
                IN /\ formattedAql' = Set(formattedAql, r, Defined(text))
                   /\ dispatched' = Set(dispatched, r, Append(dispatched[r], text))
                   /\ pc' = Set(pc, r, "executing")
                   /\ UNCHANGED response
  /\ UNCHANGED <<req, schemaCache, building, schemaContext, warned,
                 remoteTypes, now,
                 attributeFetches>>
  /\ UNCHANGED <<driverVars, utilVars>>

\* await assetsApi.objectsByAql(...): the results, or the catch of the
\* execution error
Execute(r) ==
  /\ pc[r] = "executing"
  /\ \/ response' = Set(response, r,
          Defined([kind |-> "success", validation |-> Undefined,
                   suggestedFix |-> Undefined, examplesFor |-> Undefined,
                   qlQuery |-> formattedAql[r],
                   wasFixed |-> OrElse(validation[r][1].fixedQuery, <<>>) # <<>>]))
     \/ response' = Set(response, r,
          Defined([kind |-> "execution_error", validation |-> Undefined,
                   suggestedFix |-> Undefined, examplesFor |-> req[r].schemaId,
                   qlQuery |-> formattedAql[r], wasFixed |-> FALSE]))
  /\ pc' = Set(pc, r, "done")
  /\ UNCHANGED <<req, schemaCache, building, schemaContext, validation,
                 formattedAql, dispatched, warned, remoteTypes, now,
                 attributeFetches>>
  /\ UNCHANGED <<driverVars, utilVars>>

HandlerNext ==
  \E r \in Requests :
    \/ Start(r)
    \/ QueryCase(r)
    \/ GsvApi(r)
    \/ GsvSchemaFind(r)
    \/ GsvObjectTypes(r)
    \/ GsvAttributes(r)
    \/ ValidateStep(r)
    \/ Execute(r)

\* the requests of active are received, the others never arrive
HandlerInit(active, aqls, catalogs) ==
  /\ \E received \in [active -> [aql : aqls,
                                  schemaId : {Undefined} \cup
                                             {Defined(id) : id \in SchemaIds}]] :
       req = [r \in Requests |->
                IF r \in active THEN received[r]
                ELSE [aql |-> <<>>, schemaId |-> Undefined]]
  /\ pc = [r \in Requests |-> IF r \in active THEN "start" ELSE "idle"]
  /\ schemaCache = [r \in Requests |-> EmptyCache]
  /\ building = [r \in Requests |-> NoBuilding]
  /\ schemaContext = [r \in Requests |-> Undefined]
  /\ validation = [r \in Requests |-> Undefined]
  /\ formattedAql = [r \in Requests |-> Undefined]
  /\ dispatched = [r \in Requests |-> <<>>]
  /\ response = [r \in Requests |-> Undefined]
  /\ warned = [r \in Requests |-> FALSE]
  /\ remoteTypes \in catalogs
  /\ now = 0
  /\ attributeFetches = [r \in Requests |-> <<>>]

HandlerOff == HandlerInit({}, {<<>>}, {<<>>})

(***************************************************************************)
(* findSimilarStrings applied to names, as validateAgainstSchema calls it  *)
(***************************************************************************)

\* the longest list of candidates
MaxCandidates == 3

\* the names targets and candidates are drawn from
Names ==
  {<<>>, <<"a">>, <<"a", "n", "d">>, <<"A", "n">>, <<"(">>, <<"i", "n", "(", ")">>}

\* the lists of distinct names, as schemaContext.objectTypes is
CandidateLists ==
  {list \in UNION {[1..n -> Names] : n \in 0..MaxCandidates} :
     \A i, j \in 1..Len(list) : i # j => list[i] # list[j]}

MatcherOff ==
  /\ target = <<>>
  /\ candidates = <<>>
  /\ maxDistance = 0
  /\ similar = Undefined

MatcherInit ==
  /\ target \in Names
  /\ candidates \in CandidateLists
  /\ maxDistance \in {1, DefaultMaxDistance}
  /\ similar = Undefined

\* const similarTypes = findSimilarStrings(objectType, schema.objectTypes)
FindSimilar ==
  /\ similar = Undefined
  /\ similar' = Defined(findSimilarStrings(target, candidates, maxDistance))
  /\ UNCHANGED <<target, candidates, maxDistance>>
  /\ UNCHANGED <<driverVars, handlerVars, repeatVars, adviceVars, managerVars>>

AdviceOff ==
  /\ error = Undefined
  /\ advice = Undefined

\* the calls made on the manager the server keeps: the constructor's
\* initialize(), refreshSchema(id) and two getSchemaForValidation(id)
Tasks == {"initialize", "refreshSchema", "get1", "get2"}

Getters == {"get1", "get2"}

NoTask == [pc |-> "off", ctx |-> Undefined, todo |-> <<>>, early |-> FALSE]

ManagerOff ==
  /\ allSchemas = <<>>
  /\ initialized = FALSE
  /\ managerCache = EmptyCache
  /\ task = [p \in Tasks |-> NoTask]
  /\ listed = Undefined

(***************************************************************************)
(* The exported functions called one after the other                       *)
(***************************************************************************)

\* the longest query called repeatedly, counted in pieces of Frags
MaxShort == 3

\* the number of calls made
MaxCalls == 3

ShortQueries ==
  {Concat(pieces) : pieces \in UNION {[1..n -> Frags] : n \in 0..MaxShort}}

\* the queries ObjectType = "X" of one clause
ClauseQueries ==
  {KwObjectType \o <<"=", "\"">> \o x \o <<"\"">> : x \in Frags \ {<<"\"">>}}

RepeatQueries == ShortQueries \cup ClauseQueries

\* a query of another caller, validated in between
OtherQuery == <<"a", " ", "=", " ", "a", " ", "a", " ", "a">>

\* valueWithSpaceRegex matched at the '=' of position i: the position after
\* the match, 0 if none.  The second \w+ takes its whole run unless a quote
\* follows; then it gives back one character, if it has two.
ValueWithSpaceMatchEnd(aql, i) ==
  IF ~(i <= Len(aql) /\ aql[i] = "=") THEN 0
  ELSE LET p == SkipWs(aql, i + 1)
           q == SkipWord(aql, p)
           r == SkipWs(aql, q)
           e == SkipWord(aql, r)
       IN IF ~(q > p /\ r > q /\ e > r) THEN 0
          ELSE IF NotQuoteAhead(aql, e) THEN e
          ELSE IF e - r >= 2 THEN e - 1
          ELSE 0

\* valueWithSpaceRegex.test(aql) on a RegExp object whose lastIndex is
\* start: whether it matches at index start or later, and the lastIndex
\* the /g flag leaves on the object
ValueWithSpaceExec(aql, start) ==
  LET hits == {i \in (start + 1)..Len(aql) : ValueWithSpaceMatchEnd(aql, i) # 0}
  IN IF hits = {} THEN [found |-> FALSE, lastIndex |-> 0]
     ELSE LET first == CHOOSE i \in hits : \A k \in hits : i <= k
          IN [found |-> TRUE, lastIndex |-> ValueWithSpaceMatchEnd(aql, first) - 1]

\* a validator whose valueWithSpaceRegex is one object shared by all calls:
\* its test starts where the one before stopped
validateWithSharedRegex(aql, ctx, left) ==
  LET v == validateAqlQuery(aql, ctx)
  IN IF ValueWithSpaceExec(aql, left).found = ValueWithSpaceTest(aql) THEN v
     ELSE LET errors == SelectSeq(v.errors, LAMBDA m : m.text # ErrSpacedValue)
          IN [v EXCEPT !.errors = errors,
                       !.suggestions =
                          SelectSeq(v.suggestions, LAMBDA m : m.text # SugSpacedValue),
                       !.isValid = IsValid(errors)]

\* validateAqlQuery(aql, schemaContext) after earlier calls: every regular
\* expression is a literal evaluated inside the call, a new object whose
\* lastIndex is 0, so nothing an earlier call left is read
validateAfter(aql, ctx, left) == validateAqlQuery(aql, ctx)

RepeatOff ==
  /\ calls = <<>>
  /\ lastIndex = 0

UtilOff == MatcherOff /\ RepeatOff /\ AdviceOff /\ ManagerOff

\* validateAqlQuery(aql, c) is called and returns
Validated(aql, c) ==
  /\ calls' = Append(calls,
       [fn |-> "validateAqlQuery", aql |-> aql, ctx |-> c,
        out |-> validateAfter(aql, c, lastIndex)])
  /\ lastIndex' = IF aql = <<>> \/ Trim(aql) = <<>> THEN lastIndex
                  ELSE ValueWithSpaceExec(aql, 0).lastIndex

\* one more call: the first on any query, the later ones on the same query,
\* or a validation of OtherQuery in between
Call ==
  /\ Len(calls) < MaxCalls
  /\ \/ \E aql \in (IF calls = <<>> THEN RepeatQueries ELSE {calls[1].aql}) :
          \/ \E c \in Contexts : Validated(aql, c)
          \/ /\ calls' = Append(calls,
                  [fn |-> "formatAqlForRequest", aql |-> aql, ctx |-> Undefined,
                   out |-> formatAqlForRequest(aql, TRUE)])
             /\ UNCHANGED lastIndex
     \/ /\ calls # <<>>
        /\ Validated(OtherQuery, Undefined)
  /\ UNCHANGED <<driverVars, handlerVars, matcherVars, adviceVars, managerVars>>

(***************************************************************************)
(* getContextualErrorMessage applied to the error a request failed with    *)
(***************************************************************************)

\* 'Unknown error occurred while processing AQL query'
UnknownErrorMessage ==
  <<
    "U", "n", "k", "n", "o", "w", "n", " ", "e", "r", "r", "o", "r", " ",
    "o", "c", "c", "u", "r", "r", "e", "d", " ", "w", "h", "i", "l", "e",
    " ", "p", "r", "o", "c", "e", "s", "s", "i", "n", "g", " ", "A", "Q",
    "L", " ", "q", "u", "e", "r", "y"
  >>

\* the message and the suggestions of each branch
ContextualAdvice ==
  [syntax |->
     [message |-> "AQL syntax error: The query could not be parsed correctly",
      suggestions |->
        <<"Check for missing or unbalanced quotes, parentheses, or operators",
          "Ensure all values with spaces are enclosed in quotes">>],
   attribute |->
     [message |-> "Attribute error: The specified attribute may not exist or is invalid",
      suggestions |->
        <<"Verify that the attribute name is spelled correctly",
          "Check that the attribute exists for the specified object type">>],
   objectType |->
     [message |-> "Object type error: The specified object type may not exist or is invalid",
      suggestions |->
        <<"Verify that the object type name is spelled correctly",
          "Check that the object type exists in the schema">>],
   value |->
     [message |-> "Value error: The specified value is invalid or in the wrong format",
      suggestions |->
        <<"Ensure values with spaces are enclosed in quotes",
          "Check that date values are in the correct format">>]]

SugTrySimple == "Try a simple query first, like: ObjectType = \"Application\""

\* err.message is Undefined when it is not a string.  The message returned
\* is Msg(text, <<>>) for a text of the function, and Msg("", <<m>>) for
\* the error's own message m
getContextualErrorMessage(err, aql) ==
  LET errorMessage == IF err.message # Undefined THEN err.message[1]
                      ELSE UnknownErrorMessage
      Has(w) == Includes(errorMessage, w)
      Advice(a) == [message |-> Msg(a.message, <<>>),
                    suggestions |-> a.suggestions \o <<SugTrySimple>>]
  IN IF Has(<<"s", "y", "n", "t", "a", "x">>) \/ Has(<<"p", "a", "r", "s", "e">>)
       THEN Advice(ContextualAdvice.syntax)
     ELSE IF Has(<<"a", "t", "t", "r", "i", "b", "u", "t", "e">>) \/ Has(<<"p", "r", "o", "p", "e", "r", "t", "y">>)
       THEN Advice(ContextualAdvice.attribute)
     ELSE IF Has(<<"o", "b", "j", "e", "c", "t", "T", "y", "p", "e">>)
             \/ Has(<<"o", "b", "j", "e", "c", "t", " ", "t", "y", "p", "e">>)
       THEN Advice(ContextualAdvice.objectType)
     ELSE IF Has(<<"v", "a", "l", "u", "e">>)
       THEN Advice(ContextualAdvice.value)
     ELSE [message |-> Msg("", <<errorMessage>>),
           suggestions |-> <<SugTrySimple>>]

MaxWords == 2

\* pieces of the messages a remote service fails with
ErrorWords ==
  {<<"s", "y", "n", "t", "a", "x">>,
   <<"S", "y", "n", "t", "a", "x">>,
   <<"p", "a", "r", "s", "e">>,
   <<"a", "t", "t", "r", "i", "b", "u", "t", "e">>,
   <<"p", "r", "o", "p", "e", "r", "t", "y">>,
   <<"o", "b", "j", "e", "c", "t", "T", "y", "p", "e">>,
   <<"o", "b", "j", "e", "c", "t", " ", "t", "y", "p", "e">>,
   <<"v", "a", "l", "u", "e">>,
   <<"n", "o", "t", " ", "f", "o", "u", "n", "d">>,
   <<"x">>,
   <<" ">>}

\* the error objects: message a string, or not a string
Errors ==
  {[message |-> Defined(Concat(ws))] :
     ws \in UNION {[1..n -> ErrorWords] : n \in 0..MaxWords}}
  \cup {[message |-> Undefined]}

\* catch (error) { ... getContextualErrorMessage(error, formattedAql) ... }
ContextualError ==
  /\ error = Undefined
  /\ \E e \in Errors :
       /\ error' = Defined(e)
       /\ advice' = Defined(getContextualErrorMessage(e, Undefined))
  /\ UNCHANGED <<driverVars, handlerVars, matcherVars, repeatVars, managerVars>>

(***************************************************************************)
(* The SchemaCacheManager of the server: initialization, listResources,    *)
(* refreshSchema and getSchemaForValidation on one manager                 *)
(***************************************************************************)

\* schemas.values of schemaFindAll
RemoteSchemas == <<[id |-> "6", name |-> <<"a">>]>>

\* new SchemaCacheManager(jiraClient): the fields are set and initialize()
\* runs up to its first await; the other calls have not been made yet
ManagerInit ==
  /\ allSchemas = <<>>
  /\ initialized = FALSE
  /\ managerCache = EmptyCache
  /\ task = [p \in Tasks |->
               [NoTask EXCEPT !.pc = IF p = "initialize" THEN "api" ELSE "start"]]
  /\ listed = Undefined

At(p, where) == [task EXCEPT ![p].pc = where]

ManagerFrame == UNCHANGED <<driverVars, handlerVars, matcherVars, repeatVars, adviceVars>>

\* initialize(): await this.jiraClient.getAssetsApi()
InitializeApi ==
  /\ task["initialize"].pc = "api"
  /\ \E next \in {"schemaFindAll", "failed"} : task' = At("initialize", next)
  /\ UNCHANGED <<allSchemas, initialized, managerCache, listed>>
  /\ ManagerFrame

\* initialize(): await assetsApi.schemaFindAll(), then the two assignments
InitializeFindAll ==
  /\ task["initialize"].pc = "schemaFindAll"
  /\ \/ /\ allSchemas' = RemoteSchemas
        /\ initialized' = TRUE
        /\ task' = At("initialize", "done")
     \/ /\ task' = At("initialize", "failed")
        /\ UNCHANGED <<allSchemas, initialized>>
  /\ UNCHANGED <<managerCache, listed>>
  /\ ManagerFrame

\* listResources: await schemaCacheManager.waitForInitialization(), which
\* returns at once or returns Promise.resolve(), then getAllSchemas()
ListResources ==
  /\ listed = Undefined
  /\ listed' = Defined(allSchemas)
  /\ UNCHANGED <<allSchemas, initialized, managerCache, task>>
  /\ ManagerFrame

\* refreshSchema(schemaId) is called: await this.jiraClient.getAssetsApi()
RefreshCall ==
  /\ task["refreshSchema"].pc = "start"
  /\ task' = At("refreshSchema", "api")
  /\ UNCHANGED <<allSchemas, initialized, managerCache, listed>>
  /\ ManagerFrame

RefreshApi ==
  /\ task["refreshSchema"].pc = "api"
  /\ \E next \in {"schemaFind", "failed"} : task' = At("refreshSchema", next)
  /\ UNCHANGED <<allSchemas, initialized, managerCache, listed>>
  /\ ManagerFrame

\* await assetsApi.schemaFind({ id }); allSchemas is updated and the entry
\* of the validation cache is deleted
RefreshSchemaFind(id) ==
  /\ task["refreshSchema"].pc = "schemaFind"
  /\ \/ LET schema == [id |-> id, name |-> <<"a">>]
            found == {i \in 1..Len(allSchemas) : allSchemas[i].id = id}
        IN /\ allSchemas' =
                IF found # {}
                THEN [allSchemas EXCEPT ![CHOOSE i \in found : \A j \in found : i <= j] = schema]
                ELSE Append(allSchemas, schema)
           /\ managerCache' = [managerCache EXCEPT ![id] = Undefined]
           /\ task' = At("refreshSchema", "done")
     \/ /\ task' = At("refreshSchema", "failed")
        /\ UNCHANGED <<allSchemas, managerCache>>
  /\ UNCHANGED <<initialized, listed>>
  /\ ManagerFrame

\* getSchemaForValidation(schemaId): the cache lookup, then
\* await jiraClient.getAssetsApi()
GetCall(p, id) ==
  /\ task[p].pc = "start"
  /\ LET cachedSchema == managerCache[id]
     IN IF cachedSchema # Undefined /\ ~isCacheExpired(cachedSchema[1].timestamp)
        THEN task' = [task EXCEPT ![p].pc = "done",
                                  ![p].ctx = Defined(cachedSchema[1].data),
                                  ![p].early = task[cachedSchema[1].by].early]
        ELSE task' = At(p, "api")
  /\ UNCHANGED <<allSchemas, initialized, managerCache, listed>>
  /\ ManagerFrame

GetApi(p) ==
  /\ task[p].pc = "api"
  /\ \E next \in {"schemaFind", "failed"} : task' = At(p, next)
  /\ UNCHANGED <<allSchemas, initialized, managerCache, listed>>
  /\ ManagerFrame

GetSchemaFind(p) ==
  /\ task[p].pc = "schemaFind"
  /\ \E next \in {"objectTypes", "failed"} : task' = At(p, next)
  /\ UNCHANGED <<allSchemas, initialized, managerCache, listed>>
  /\ ManagerFrame

\* this.schemaCache.set(schemaId, { data, timestamp }); return schemaContext.
\* by names the call that stored the entry; it is not a field of the code
Stored(p, id, ctx) ==
  /\ managerCache' = [managerCache EXCEPT ![id] =
                        Defined([data |-> ctx, timestamp |-> now, by |-> p])]
  /\ task' = [task EXCEPT ![p].pc = "done", ![p].ctx = Defined(ctx), ![p].todo = <<>>]

\* await assetsApi.objectTypesBySchema(...); early records that the data
\* arrived before refreshSchema was called
GetObjectTypes(p, id) ==
  /\ task[p].pc = "objectTypes"
  /\ \/ LET ctx == [objectTypes |-> [i \in 1..Len(OneType) |-> OneType[i].name],
                    attributes |-> <<>>,
                    referenceTypes |-> <<>>]
            objectTypesToProcess ==
              SubSeq(OneType, 1, Min(OBJECT_TYPE_LIMIT, Len(OneType)))
        IN /\ task' = [task EXCEPT ![p].pc = "attributes",
                                   ![p].ctx = Defined(ctx),
                                   ![p].todo = objectTypesToProcess,
                                   ![p].early = task["refreshSchema"].pc = "start"]
           /\ UNCHANGED managerCache
     \/ /\ task' = At(p, "failed")
        /\ UNCHANGED managerCache
  /\ UNCHANGED <<allSchemas, initialized, listed>>
  /\ ManagerFrame

\* one turn of the loop over objectTypesToProcess
GetAttributes(p, id) ==
  /\ task[p].pc = "attributes"
  /\ LET objectType == Head(task[p].todo)
         rest == Tail(task[p].todo)
         old == task[p].ctx[1]
         folded ==
           [old EXCEPT
              !.attributes =
                 (objectType.name :>
                    [i \in 1..Len(objectType.attributes) |->
                       objectType.attributes[i].name]) @@ old.attributes,
              !.referenceTypes =
                 old.referenceTypes \o ReferenceTypeNames(objectType.attributes)]
     IN \E ctx \in {folded, old} :
          IF rest = <<>>
          THEN Stored(p, id, ctx)
          ELSE /\ task' = [task EXCEPT ![p].ctx = Defined(ctx), ![p].todo = rest]
               /\ UNCHANGED managerCache
  /\ UNCHANGED <<allSchemas, initialized, listed>>
  /\ ManagerFrame

ManagerNext ==
  \/ InitializeApi
  \/ InitializeFindAll
  \/ ListResources
  \/ RefreshCall
  \/ RefreshApi
  \/ \E id \in SchemaIds : RefreshSchemaFind(id)
  \/ \E p \in Getters, id \in SchemaIds :
       \/ GetCall(p, id)
       \/ GetApi(p)
       \/ GetSchemaFind(p)
       \/ GetObjectTypes(p, id)
       \/ GetAttributes(p, id)

(***************************************************************************)
(* The example queries the server publishes                                *)
(***************************************************************************)

\* the queries of schemaExamples:
\*   '6': ObjectType = "Supported laptops"
\*   '6': ObjectType = "Laptops" AND Status = "Active"
\*   '6': ObjectType = "Supported laptops" AND "Screen size" = "13-inch"
\*   '6': ObjectType = "Supported laptops" AND Manufacturer.Name = "Apple"
\*   '2': ObjectType = "Application"
\*   '2': ObjectType = "Application" AND Status = "Active"
\*   '2': ObjectType = "Application" AND "Business Criticality" = "High"
\*   '4': ObjectType = "Server"
\*   '4': ObjectType = "Server" AND "Operating System" LIKE "Linux"
\*   '4': ObjectType = "Database" AND Status = "Production"
\*   'default': ObjectType = "[ObjectTypeName]"
\*   'default': ObjectType = "[ObjectTypeName]" AND [AttributeName] = "[Value]"
\*   'default': ObjectType = "[ObjectTypeName]" AND [AttributeName] LIKE "[Value]"
\*   'default': ObjectType = "[ObjectTypeName]" AND ([AttributeName] = "[Value1]" OR [AttributeName] = "[Value2]")
schemaExamples ==
  ("6" :>
    <<
      <<"O", "b", "j", "e", "c", "t", "T", "y", "p", "e", " ", "=", " ",
        "\"", "S", "u", "p", "p", "o", "r", "t", "e", "d", " ", "l", "a",
        "p", "t", "o", "p", "s", "\"">>,
      <<"O", "b", "j", "e", "c", "t", "T", "y", "p", "e", " ", "=", " ",
        "\"", "L", "a", "p", "t", "o", "p", "s", "\"", " ", "A", "N", "D",
        " ", "S", "t", "a", "t", "u", "s", " ", "=", " ", "\"", "A", "c",
        "t", "i", "v", "e", "\"">>,
      <<"O", "b", "j", "e", "c", "t", "T", "y", "p", "e", " ", "=", " ",
        "\"", "S", "u", "p", "p", "o", "r", "t", "e", "d", " ", "l", "a",
        "p", "t", "o", "p", "s", "\"", " ", "A", "N", "D", " ", "\"", "S",
        "c", "r", "e", "e", "n", " ", "s", "i", "z", "e", "\"", " ", "=",
        " ", "\"", "1", "3", "-", "i", "n", "c", "h", "\"">>,
      <<"O", "b", "j", "e", "c", "t", "T", "y", "p", "e", " ", "=", " ",
        "\"", "S", "u", "p", "p", "o", "r", "t", "e", "d", " ", "l", "a",
        "p", "t", "o", "p", "s", "\"", " ", "A", "N", "D", " ", "M", "a",
        "n", "u", "f", "a", "c", "t", "u", "r", "e", "r", ".", "N", "a", "m",
        "e", " ", "=", " ", "\"", "A", "p", "p", "l", "e", "\"">>
    >>)
  @@
  ("2" :>
    <<
      <<"O", "b", "j", "e", "c", "t", "T", "y", "p", "e", " ", "=", " ",
        "\"", "A", "p", "p", "l", "i", "c", "a", "t", "i", "o", "n", "\"">>,
      <<"O", "b", "j", "e", "c", "t", "T", "y", "p", "e", " ", "=", " ",
        "\"", "A", "p", "p", "l", "i", "c", "a", "t", "i", "o", "n", "\"",
        " ", "A", "N", "D", " ", "S", "t", "a", "t", "u", "s", " ", "=", " ",
        "\"", "A", "c", "t", "i", "v", "e", "\"">>,
      <<"O", "b", "j", "e", "c", "t", "T", "y", "p", "e", " ", "=", " ",
        "\"", "A", "p", "p", "l", "i", "c", "a", "t", "i", "o", "n", "\"",
        " ", "A", "N", "D", " ", "\"", "B", "u", "s", "i", "n", "e", "s",
        "s", " ", "C", "r", "i", "t", "i", "c", "a", "l", "i", "t", "y",
        "\"", " ", "=", " ", "\"", "H", "i", "g", "h", "\"">>
    >>)
  @@
  ("4" :>
    <<
      <<"O", "b", "j", "e", "c", "t", "T", "y", "p", "e", " ", "=", " ",
        "\"", "S", "e", "r", "v", "e", "r", "\"">>,
      <<"O", "b", "j", "e", "c", "t", "T", "y", "p", "e", " ", "=", " ",
        "\"", "S", "e", "r", "v", "e", "r", "\"", " ", "A", "N", "D", " ",
        "\"", "O", "p", "e", "r", "a", "t", "i", "n", "g", " ", "S", "y",
        "s", "t", "e", "m", "\"", " ", "L", "I", "K", "E", " ", "\"", "L",
        "i", "n", "u", "x", "\"">>,
      <<"O", "b", "j", "e", "c", "t", "T", "y", "p", "e", " ", "=", " ",
        "\"", "D", "a", "t", "a", "b", "a", "s", "e", "\"", " ", "A", "N",
        "D", " ", "S", "t", "a", "t", "u", "s", " ", "=", " ", "\"", "P",
        "r", "o", "d", "u", "c", "t", "i", "o", "n", "\"">>
    >>)
  @@
  ("default" :>
    <<
      <<"O", "b", "j", "e", "c", "t", "T", "y", "p", "e", " ", "=", " ",
        "\"", "[", "O", "b", "j", "e", "c", "t", "T", "y", "p", "e", "N",
        "a", "m", "e", "]", "\"">>,
      <<"O", "b", "j", "e", "c", "t", "T", "y", "p", "e", " ", "=", " ",
        "\"", "[", "O", "b", "j", "e", "c", "t", "T", "y", "p", "e", "N",
        "a", "m", "e", "]", "\"", " ", "A", "N", "D", " ", "[", "A", "t",
        "t", "r", "i", "b", "u", "t", "e", "N", "a", "m", "e", "]", " ", "=",
        " ", "\"", "[", "V", "a", "l", "u", "e", "]", "\"">>,
      <<"O", "b", "j", "e", "c", "t", "T", "y", "p", "e", " ", "=", " ",
        "\"", "[", "O", "b", "j", "e", "c", "t", "T", "y", "p", "e", "N",
        "a", "m", "e", "]", "\"", " ", "A", "N", "D", " ", "[", "A", "t",
        "t", "r", "i", "b", "u", "t", "e", "N", "a", "m", "e", "]", " ", "L",
        "I", "K", "E", " ", "\"", "[", "V", "a", "l", "u", "e", "]", "\"">>,
      <<"O", "b", "j", "e", "c", "t", "T", "y", "p", "e", " ", "=", " ",
        "\"", "[", "O", "b", "j", "e", "c", "t", "T", "y", "p", "e", "N",
        "a", "m", "e", "]", "\"", " ", "A", "N", "D", " ", "(", "[", "A",
        "t", "t", "r", "i", "b", "u", "t", "e", "N", "a", "m", "e", "]", " ",
        "=", " ", "\"", "[", "V", "a", "l", "u", "e", "1", "]", "\"", " ",
        "O", "R", " ", "[", "A", "t", "t", "r", "i", "b", "u", "t", "e", "N",
        "a", "m", "e", "]", " ", "=", " ", "\"", "[", "V", "a", "l", "u",
        "e", "2", "]", "\"", ")">>
    >>)

\* the queries of objectTypeExamples:
\*   '30': ObjectType = "Supported laptops" AND "Screen size" = "13-inch"
\*   '30': ObjectType = "Supported laptops" AND RAM LIKE "16GB"
\*   '30': ObjectType = "Supported laptops" AND Manufacturer.Name = "Apple"
\*   '70': ObjectType = "Laptops" AND Status = "Active"
\*   '70': ObjectType = "Laptops" AND "Serial Number" = "[SerialNumber]"
objectTypeExamples ==
  ("30" :>
    <<
      <<"O", "b", "j", "e", "c", "t", "T", "y", "p", "e", " ", "=", " ",
        "\"", "S", "u", "p", "p", "o", "r", "t", "e", "d", " ", "l", "a",
        "p", "t", "o", "p", "s", "\"", " ", "A", "N", "D", " ", "\"", "S",
        "c", "r", "e", "e", "n", " ", "s", "i", "z", "e", "\"", " ", "=",
        " ", "\"", "1", "3", "-", "i", "n", "c", "h", "\"">>,
      <<"O", "b", "j", "e", "c", "t", "T", "y", "p", "e", " ", "=", " ",
        "\"", "S", "u", "p", "p", "o", "r", "t", "e", "d", " ", "l", "a",
        "p", "t", "o", "p", "s", "\"", " ", "A", "N", "D", " ", "R", "A",
        "M", " ", "L", "I", "K", "E", " ", "\"", "1", "6", "G", "B", "\"">>,
      <<"O", "b", "j", "e", "c", "t", "T", "y", "p", "e", " ", "=", " ",
        "\"", "S", "u", "p", "p", "o", "r", "t", "e", "d", " ", "l", "a",
        "p", "t", "o", "p", "s", "\"", " ", "A", "N", "D", " ", "M", "a",
        "n", "u", "f", "a", "c", "t", "u", "r", "e", "r", ".", "N", "a", "m",
        "e", " ", "=", " ", "\"", "A", "p", "p", "l", "e", "\"">>
    >>)
  @@
  ("70" :>
    <<
      <<"O", "b", "j", "e", "c", "t", "T", "y", "p", "e", " ", "=", " ",
        "\"", "L", "a", "p", "t", "o", "p", "s", "\"", " ", "A", "N", "D",
        " ", "S", "t", "a", "t", "u", "s", " ", "=", " ", "\"", "A", "c",
        "t", "i", "v", "e", "\"">>,
      <<"O", "b", "j", "e", "c", "t", "T", "y", "p", "e", " ", "=", " ",
        "\"", "L", "a", "p", "t", "o", "p", "s", "\"", " ", "A", "N", "D",
        " ", "\"", "S", "e", "r", "i", "a", "l", " ", "N", "u", "m", "b",
        "e", "r", "\"", " ", "=", " ", "\"", "[", "S", "e", "r", "i", "a",
        "l", "N", "u", "m", "b", "e", "r", "]", "\"">>
    >>)

\* the queries of the examples returned, without their descriptions
getExampleQueriesWithContext(schemaId, objectTypeId) ==
  IF objectTypeId # Undefined /\ objectTypeId[1] # ""
     /\ objectTypeId[1] \in DOMAIN objectTypeExamples
  THEN objectTypeExamples[objectTypeId[1]]
  ELSE IF schemaId \in DOMAIN schemaExamples THEN schemaExamples[schemaId]
  ELSE schemaExamples["default"]

\* the queries of complexExamples of the aql-syntax resource:
\*   objectType = "Employee" AND "Department".Name = "HR" AND "Access Level" = "Manager"
\*   objectType = "Server" AND "Patch Status" = "Critical Missing" AND "Environment" in ("Production", "Staging")
\*   objectType = "Asset" AND "Assigned To" = currentUser() AND "Warranty End" < endOfYear() AND "Warranty End" > startOfYear()
complexExamples ==
  <<
    <<"o", "b", "j", "e", "c", "t", "T", "y", "p", "e", " ", "=", " ", "\"",
      "E", "m", "p", "l", "o", "y", "e", "e", "\"", " ", "A", "N", "D", " ",
      "\"", "D", "e", "p", "a", "r", "t", "m", "e", "n", "t", "\"", ".", "N",
      "a", "m", "e", " ", "=", " ", "\"", "H", "R", "\"", " ", "A", "N", "D",
      " ", "\"", "A", "c", "c", "e", "s", "s", " ", "L", "e", "v", "e", "l",
      "\"", " ", "=", " ", "\"", "M", "a", "n", "a", "g", "e", "r", "\"">>,
    <<"o", "b", "j", "e", "c", "t", "T", "y", "p", "e", " ", "=", " ", "\"",
      "S", "e", "r", "v", "e", "r", "\"", " ", "A", "N", "D", " ", "\"", "P",
      "a", "t", "c", "h", " ", "S", "t", "a", "t", "u", "s", "\"", " ", "=",
      " ", "\"", "C", "r", "i", "t", "i", "c", "a", "l", " ", "M", "i", "s",
      "s", "i", "n", "g", "\"", " ", "A", "N", "D", " ", "\"", "E", "n", "v",
      "i", "r", "o", "n", "m", "e", "n", "t", "\"", " ", "i", "n", " ", "(",
      "\"", "P", "r", "o", "d", "u", "c", "t", "i", "o", "n", "\"", ",", " ",
      "\"", "S", "t", "a", "g", "i", "n", "g", "\"", ")">>,
    <<"o", "b", "j", "e", "c", "t", "T", "y", "p", "e", " ", "=", " ", "\"",
      "A", "s", "s", "e", "t", "\"", " ", "A", "N", "D", " ", "\"", "A", "s",
      "s", "i", "g", "n", "e", "d", " ", "T", "o", "\"", " ", "=", " ", "c",
      "u", "r", "r", "e", "n", "t", "U", "s", "e", "r", "(", ")", " ", "A",
      "N", "D", " ", "\"", "W", "a", "r", "r", "a", "n", "t", "y", " ", "E",
      "n", "d", "\"", " ", "<", " ", "e", "n", "d", "O", "f", "Y", "e", "a",
      "r", "(", ")", " ", "A", "N", "D", " ", "\"", "W", "a", "r", "r", "a",
      "n", "t", "y", " ", "E", "n", "d", "\"", " ", ">", " ", "s", "t", "a",
      "r", "t", "O", "f", "Y", "e", "a", "r", "(", ")">>
  >>

\* the arguments getExampleQueriesWithContext is applied to
ExampleRequests ==
  {"6", "2", "4", "9", "default"}
  \X {Undefined, Defined("30"), Defined("70"), Defined("1"), Defined("")}

\* every query of every list of examples
PublishedExamples ==
  UNION {{list[i] : i \in 1..Len(list)} :
           list \in {getExampleQueriesWithContext(a[1], a[2]) : a \in ExampleRequests}
                    \cup {complexExamples}}

(***************************************************************************)
(* Specifications                                                          *)
(***************************************************************************)

\* one 'query' request, from its arrival to its response
Init == DriverOff /\ HandlerInit({1}, Queries, {OneType}) /\ UtilOff

Next == HandlerNext

Spec == Init /\ [][Next]_vars

\* the exported functions applied to every query of Queries
InitAql == DriverInit /\ HandlerOff /\ UtilOff

NextAql == DriverNext

SpecAql == InitAql /\ [][NextAql]_vars

\* two 'query' requests in flight together
ConcurrentQueries == {<<"a", "=", "a">>, <<"a">>}

InitCache ==
  DriverOff /\ HandlerInit(Requests, ConcurrentQueries, {TwoTypes}) /\ UtilOff

SpecCache == InitCache /\ [][Next]_vars

\* one 'query' request with a schema of two or of eleven object types
InitResolve ==
  DriverOff /\ HandlerInit({1}, ConcurrentQueries, {TwoTypes, ManyTypes}) /\ UtilOff

SpecResolve == InitResolve /\ [][Next]_vars

\* findSimilarStrings applied to every target and list of candidates
InitSimilar ==
  DriverOff /\ HandlerOff /\ MatcherInit /\ RepeatOff /\ AdviceOff /\ ManagerOff

NextSimilar == FindSimilar

SpecSimilar == InitSimilar /\ [][NextSimilar]_vars

\* the exported functions called up to MaxCalls times
InitRepeat == DriverOff /\ HandlerOff /\ UtilOff

NextRepeat == Call

SpecRepeat == InitRepeat /\ [][NextRepeat]_vars

\* getContextualErrorMessage applied to one error
InitAdvice ==
  DriverOff /\ HandlerOff /\ MatcherOff /\ RepeatOff /\ AdviceOff /\ ManagerOff

NextAdvice == ContextualError

SpecAdvice == InitAdvice /\ [][NextAdvice]_vars

\* the calls on the manager the server keeps, in every interleaving
InitManager ==
  DriverOff /\ HandlerOff /\ MatcherOff /\ RepeatOff /\ AdviceOff /\ ManagerInit

NextManager == ManagerNext

SpecManager == InitManager /\ [][NextManager]_vars

\* the exported functions applied to every published example
InitExamples ==
  /\ query \in PublishedExamples
  /\ step = "start"
  /\ context = Undefined
  /\ result = Undefined
  /\ formatted = Undefined
  /\ reformatted = Undefined
  /\ fixed = Undefined
  /\ revalidation = Undefined
  /\ HandlerOff
  /\ UtilOff

SpecExamples == InitExamples /\ [][NextAql]_vars

(***************************************************************************)
(* Properties                                                              *)
(***************************************************************************)

HasText(msgs, text) == \E i \in 1..Len(msgs) : msgs[i].text = text

\* C1: formatting the formatter's output gives that output again:
\* formatAqlForRequest(formatAqlForRequest(x, true), true) equals
\* formatAqlForRequest(x, true) for every query x
C1_FormatterIdempotent ==
  step = "reformatted" => reformatted = formatted

\* the casing and quoting defects a validation reports
CasingQuotingDefects(v) ==
  {text \in {ErrLogical, ErrSpacedValue} : HasText(v.errors, text)}
    \cup {text \in {SugLike, SugIn} : HasText(v.suggestions, text)}

\* C2: when attemptQueryFix(x) returns y, no casing or quoting defect that
\* validateAqlQuery reported for x is reported for y
C2_FixResolvesDefects ==
  step = "revalidated" =>
    CasingQuotingDefects(result[1]) \cap CasingQuotingDefects(revalidation[1]) = {}

\* C3: a query that validateAqlQuery reports invalid is answered with the
\* error response that carries the validation, and objectsByAql is never
\* called for that request
C3_InvalidNeverExecuted ==
  \A r \in Requests :
    validation[r] # Undefined /\ ~validation[r][1].isValid =>
      /\ dispatched[r] = <<>>
      /\ pc[r] = "done"
      /\ response[r] # Undefined
      /\ response[r][1].kind = "invalid_query"
      /\ response[r][1].validation = validation[r]

C3_Witness ==
  \E r \in Requests :
    /\ validation[r] # Undefined
    /\ ~validation[r][1].isValid
    /\ validation[r][1].fixedQuery # Undefined
    /\ pc[r] = "done"

\* C4: validateAqlQuery returns isValid = true exactly when its errors list
\* is empty, with or without a schema context and whatever it suggests
C4_ValidIffNoErrors ==
  step = "validated" => (result[1].isValid <=> result[1].errors = <<>>)

C4_Witness ==
  /\ step = "validated"
  /\ context # Undefined
  /\ result[1].isValid
  /\ result[1].suggestions # <<>>

\* C5: validateAqlQuery returns a fixedQuery only with a non-empty errors
\* list, every fixedQuery differs from the input, and there is none when
\* the errors list is empty or the fixer's rewrite equals the input
C5_FixedQueryOnlyForErrors ==
  step = "validated" =>
    LET v == result[1]
        rewrite ==
          FixQuoting(FixSpacing(FixObjectType(FixOperatorCasing(FixCasing(query)))))
    IN /\ v.fixedQuery # Undefined => v.errors # <<>> /\ v.fixedQuery[1] # query
       /\ v.errors = <<>> => v.fixedQuery = Undefined
       /\ rewrite = query => v.fixedQuery = Undefined

C5_Witness ==
  /\ step = "validated"
  /\ result[1].errors # <<>>
  /\ result[1].fixedQuery # Undefined
  /\ result[1].fixedQuery[1] # query

\* request r has requested the object types of its schema, or the
\* attributes of one of them, and getSchemaForValidation has not returned
Resolving(r) == pc[r] \in {"gsv_objectTypes", "gsv_attributes"}

\* C6: at most one resolution per schema id is in flight: two concurrent
\* getSchemaForValidation calls for one schema id never both fetch the
\* object types and attributes
C6_SingleFlight ==
  \A r1, r2 \in Requests :
    r1 # r2 /\ Resolving(r1) /\ Resolving(r2) => req[r1].schemaId # req[r2].schemaId

\* C7: when getSchemaForValidation throws, the request does not fail: the
\* query is validated without a schema context and answered as a request
\* validated without schema awareness is
C7_LoadFailureDegrades ==
  \A r \in Requests :
    warned[r] =>
      /\ pc[r] \in {"validate", "executing", "done"}
      /\ schemaContext[r] = Undefined
      /\ pc[r] # "validate" => validation[r] # Undefined
      /\ validation[r] # Undefined =>
           LET unaware == validateAqlQuery(req[r].aql, Undefined)
           IN /\ validation[r] = Defined(unaware)
              /\ IF ~unaware.isValid
                 THEN /\ dispatched[r] = <<>>
                      /\ response[r] =
                           Defined([kind |-> "invalid_query",
                                    validation |-> Defined(unaware),
                                    suggestedFix |-> unaware.fixedQuery,
                                    examplesFor |-> req[r].schemaId,
                                    qlQuery |-> Undefined, wasFixed |-> FALSE])
                 ELSE /\ dispatched[r] = <<formatAqlForRequest(req[r].aql, TRUE)>>
                      /\ response[r] # Undefined =>
                           /\ response[r][1].kind \in {"success", "execution_error"}
                           /\ response[r][1].qlQuery =
                                Defined(formatAqlForRequest(req[r].aql, TRUE))

\* the load failed for a query that names an object type, and the query ran
C7_Witness ==
  \E r \in Requests :
    /\ warned[r]
    /\ response[r] # Undefined
    /\ response[r][1].kind = "success"
    /\ ObjectTypeNamesFrom(req[r].aql, 1) # <<>>

\* C8: every qlQuery sent to objectsByAql is formatAqlForRequest, with
\* auto-fix, of the caller's text, computed before the call
C8_DispatchedIsFormatted ==
  \A r \in Requests :
    /\ Len(dispatched[r]) <= 1
    /\ dispatched[r] # <<>> =>
         /\ dispatched[r][1] = formatAqlForRequest(req[r].aql, TRUE)
         /\ formattedAql[r] = Defined(dispatched[r][1])

\* a query was dispatched in a form other than the caller's text
C8_Witness ==
  \E r \in Requests : dispatched[r] # <<>> /\ dispatched[r][1] # req[r].aql

\* a whitespace-delimited and, or or not of s that is not all uppercase
HasNonUpperOperator(s) ==
  \E kw \in {KwAnd, KwOr, KwNot} :
    \E i \in 1..Len(s) :
      /\ KwMatchEnd(s, i, kw, TRUE) # 0
      /\ Slice(s, SkipWs(s, i), SkipWs(s, i) + Len(kw)) \notin {UpperAnd, UpperOr, UpperNot}

\* C9: a non-empty query with a whitespace-delimited and, or or not that is
\* not all uppercase gets the error 'Logical operators should be uppercase'
\* and isValid = false
C9_NonUpperOperatorRejected ==
  step = "validated" /\ Trim(query) # <<>> /\ HasNonUpperOperator(query) =>
    HasText(result[1].errors, ErrLogical) /\ ~result[1].isValid

\* some '=' of s is followed by an unquoted value of two words or more: two
\* words separated by whitespace, the second neither AND nor OR nor
\* followed by a quote
HasMultiWordValue(s) ==
  \E i \in 1..Len(s) :
    /\ s[i] = "="
    /\ LET p == SkipWs(s, i + 1)
           q == SkipWord(s, p)
           r == SkipWs(s, q)
           e == SkipWord(s, r)
       IN /\ q > p
          /\ r > q
          /\ e > r
          /\ Slice(s, r, e) \notin {UpperAnd, UpperOr}
          /\ NotQuoteAhead(s, e)

\* C10: 'Values with spaces must be enclosed in quotes' is reported exactly
\* when some '=' is followed by an unquoted value of two or more words; a
\* single word followed by AND or OR and another clause does not count
C10_SpacedValueExact ==
  step = "validated" /\ Trim(query) # <<>> =>
    (HasText(result[1].errors, ErrSpacedValue) <=> HasMultiWordValue(query))

\* position i of s lies inside a double-quoted span
InQuotes(s, i) == CountChar(Slice(s, 1, i), "\"") % 2 = 1

\* no AND of s, written as an operator between spaces, is inside quotes
OperatorsUnquoted(s) ==
  \A i \in 1..Len(s) : LitAt(s, i, Spaced(UpperAnd), FALSE) => ~InQuotes(s, i)

\* C11: the double quotes the fixer or the formatter puts around an unquoted
\* value after '=' enclose only that value: when the value is followed by a
\* logical operator and another clause, the closing quote comes before the
\* operator
C11_QuotesOnlyTheValue ==
  /\ step = "formatted" /\ CountChar(query, "\"") = 0 =>
       OperatorsUnquoted(formatted[1])
  /\ step = "fixed" /\ CountChar(query, "\"") = 0 /\ fixed # Undefined =>
       OperatorsUnquoted(fixed[1])

\* the edit distance of a and b: the least number of insertions, deletions
\* and substitutions of one character that turn a into b
RECURSIVE EditDistance(_, _)
EditDistance(a, b) ==
  IF a = <<>> THEN Len(b)
  ELSE IF b = <<>> THEN Len(a)
  ELSE IF Head(a) = Head(b) THEN EditDistance(Tail(a), Tail(b))
  ELSE 1 + Min3(EditDistance(Tail(a), b),
                EditDistance(a, Tail(b)),
                EditDistance(Tail(a), Tail(b)))

\* b is within edit distance limit of a, letter case ignored
Near(a, b, limit) == EditDistance(LowerCase(a), LowerCase(b)) <= limit

\* the entries of msgs with the given text
WithText(msgs, text) == SelectSeq(msgs, LAMBDA m : m.text = text)

\* the object types the ObjectType = "X" clauses of aql name, in order,
\* that are not elements of known
UnknownObjectTypes(aql, known) ==
  SelectSeq(ObjectTypeNamesFrom(aql, 1), LAMBDA x : ~InSeq(x, known))

\* C12: with a schema context, every ObjectType = "X" clause whose X is not
\* in schemaContext.objectTypes adds one error naming X and makes the query
\* invalid, and adds a 'Did you mean' suggestion exactly when a known object
\* type is within edit distance 3 of X; a clause with a known X adds nothing
C12_UnknownObjectTypes ==
  step = "validated" /\ context # Undefined =>
    LET known == context[1].objectTypes
        unknown == UnknownObjectTypes(query, known)
        HasNear(x) == \E k \in 1..Len(known) : Near(x, known[k], 3)
    IN /\ WithText(result[1].errors, ErrObjectType) =
            [i \in 1..Len(unknown) |-> Msg(ErrObjectType, <<unknown[i]>>)]
       /\ unknown # <<>> => ~result[1].isValid
       /\ Len(WithText(result[1].suggestions, SugDidYouMean)) =
            Len(SelectSeq(unknown, HasNear))

\* a query naming an unknown object type that has no known type within
\* distance 3 was validated: one error, no 'Did you mean' suggestion
C12_Witness ==
  /\ step = "validated"
  /\ context # Undefined
  /\ Len(WithText(result[1].errors, ErrObjectType)) = 1
  /\ Len(WithText(result[1].suggestions, SugDidYouMean)) = 0

\* the characters of Names in the order of their character codes
CharOrder == <<"(", ")", "A", "a", "d", "i", "n">>

CharRank(c) == CHOOSE k \in 1..Len(CharOrder) : CharOrder[k] = c

\* a comes before b, or equals it, in lexical order
RECURSIVE LexLeq(_, _)
LexLeq(a, b) ==
  IF a = <<>> THEN TRUE
  ELSE IF b = <<>> THEN FALSE
  ELSE IF Head(a) = Head(b) THEN LexLeq(Tail(a), Tail(b))
  ELSE CharRank(Head(a)) < CharRank(Head(b))

\* C13: findSimilarStrings returns exactly the candidates whose edit distance
\* to the target, letter case ignored, is at most maxDistance, ordered by
\* ascending distance and, at equal distance, in lexical order; the list is
\* empty when no candidate is that near
C13_SimilarSorted ==
  similar # Undefined =>
    LET out == similar[1]
        Distance(c) == EditDistance(LowerCase(target), LowerCase(c))
    IN /\ {out[i] : i \in 1..Len(out)} =
            {candidates[k] : k \in {k \in 1..Len(candidates) :
                                      Near(target, candidates[k], maxDistance)}}
       /\ \A i, j \in 1..Len(out) :
            i < j => \/ Distance(out[i]) < Distance(out[j])
                     \/ /\ Distance(out[i]) = Distance(out[j])
                        /\ out[i] # out[j]
                        /\ LexLeq(out[i], out[j])

\* calls i and j validated the same query, i without a schema context and j
\* with one
SameQueryWithContext(i, j) ==
  /\ calls[i].fn = "validateAqlQuery"
  /\ calls[j].fn = "validateAqlQuery"
  /\ calls[i].aql = calls[j].aql
  /\ calls[i].ctx = Undefined
  /\ calls[j].ctx # Undefined

SameCall(i, j) ==
  /\ calls[i].fn = "validateAqlQuery"
  /\ calls[j].fn = "validateAqlQuery"
  /\ calls[i].aql = calls[j].aql
  /\ calls[i].ctx = calls[j].ctx

NoWhitespaceRun(s) == \A i \in 1..(Len(s) - 1) : ~(IsWs(s[i]) /\ IsWs(s[i + 1]))

\* every '=', '<' and '>' of s has one space before it and one after it
OperatorsSpaced(s) ==
  \A i \in 1..Len(s) :
    s[i] \in ComparisonChars =>
      /\ i > 1
      /\ s[i - 1] = " "
      /\ i < Len(s)
      /\ s[i + 1] = " "

\* every occurrence of objecttype in s as a whole word, in whatever letter
\* case, is spelled ObjectType
ObjectTypeCanonical(s) ==
  \A i \in 1..Len(s) :
    /\ LitAt(s, i, KwObjectType, TRUE)
    /\ ~(i > 1 /\ IsWord(s[i - 1]))
    /\ ~(i + Len(KwObjectType) <= Len(s) /\ IsWord(s[i + Len(KwObjectType)]))
    => LitAt(s, i, CanonObjectType, FALSE)

\* C16: the output of formatAqlForRequest(x, true) has no run of two or
\* more whitespace characters, has exactly one space before and after every
\* '=', '<' and '>', spells every whole-word objecttype as ObjectType, and
\* leaves an unquoted single-word value unquoted
C16_FormatterOutputShape ==
  step = "formatted" =>
    /\ NoWhitespaceRun(formatted[1])
    /\ OperatorsSpaced(formatted[1])
    /\ ObjectTypeCanonical(formatted[1])
    /\ CountChar(query, "\"") = 0 /\ ~HasMultiWordValue(query) =>
         CountChar(formatted[1], "\"") = 0

\* C17: an empty or whitespace-only query validates to isValid = false with
\* the one error 'Query cannot be empty', no suggestions and no fixedQuery,
\* with or without a schema context; no other check adds anything
C17_EmptyQueryShortCircuits ==
  step = "validated" /\ (\A i \in 1..Len(query) : IsWs(query[i])) =>
    result[1] = [isValid |-> FALSE,
                 errors |-> <<Msg(ErrEmpty, <<>>)>>,
                 suggestions |-> <<>>,
                 fixedQuery |-> Undefined]

\* a whitespace-only query was validated with a schema context
C17_Witness ==
  /\ step = "validated"
  /\ query # <<>>
  /\ \A i \in 1..Len(query) : IsWs(query[i])
  /\ context # Undefined
  /\ ~result[1].isValid

\* the position of every '(' directly followed by ')'
EmptyParenPairs(s) == {i \in 1..(Len(s) - 1) : s[i] = "(" /\ s[i + 1] = ")"}

C20_AdviceHasRemediation ==
  advice # Undefined =>
    LET s == advice[1].suggestions
    IN /\ Len(s) - 1 \in 1..3
       /\ s[Len(s)] = SugTrySimple
       /\ \A i \in 1..(Len(s) - 1) : s[i] # SugTrySimple

\* the least number of insertions, deletions and substitutions of one
\* character that turn a into b
RECURSIVE ClassicDistance(_, _)
ClassicDistance(a, b) ==
  IF a = <<>> THEN Len(b)
  ELSE IF b = <<>> THEN Len(a)
  ELSE Min3(ClassicDistance(Tail(a), b) + 1,
            ClassicDistance(a, Tail(b)) + 1,
            ClassicDistance(Tail(a), Tail(b))
              + (IF Head(a) = Head(b) THEN 0 ELSE 1))

\* C21: levenshteinDistance(a, b) is the classic edit distance of a and b
\* (insertion, deletion, substitution, each of cost 1), empty strings
\* included
C21_LevenshteinIsEditDistance ==
  similar # Undefined =>
    \A i \in 1..Len(candidates) :
      /\ levenshteinDistance(target, candidates[i])
           = ClassicDistance(target, candidates[i])
      /\ levenshteinDistance(candidates[i], target)
           = ClassicDistance(candidates[i], target)

\* the matcher ran on a non-empty target with the empty string and a name
\* at distance 3 or more among the candidates
C21_Witness ==
  /\ similar # Undefined
  /\ target # <<>>
  /\ \E i \in 1..Len(candidates) : candidates[i] = <<>>
  /\ \E i \in 1..Len(candidates) :
       levenshteinDistance(target, candidates[i]) >= 3

\* request r has resolved the context of the schema id that request s
\* names, and the entry r stored is still fresh
ResolvedFor(r, s) ==
  /\ r # s
  /\ req[s].schemaId # Undefined
  /\ req[r].schemaId = req[s].schemaId
  /\ schemaContext[r] # Undefined
  /\ schemaCache[r][req[r].schemaId[1]] # Undefined
  /\ ~isCacheExpired(schemaCache[r][req[r].schemaId[1]][1].timestamp)

\* C22: a 'query' operation that looks up the context of a schema id after
\* another operation has resolved it, within the freshness window, gets the
\* cached context and does not fetch from the remote service again
C22_ContextReused ==
  [][\A r, s \in Requests :
       ResolvedFor(r, s) /\ pc[s] = "query" /\ pc'[s] # "query"
         /\ req[s].aql # <<>> =>
           /\ pc'[s] = "validate"
           /\ schemaContext'[s] = schemaContext[r]]_vars

\* the object types whose attributes getSchemaForValidation may ask for
FirstTypes == SubSeq(remoteTypes, 1, Min(10, Len(remoteTypes)))

\* the remote object type with the given id
TypeWithId(id) == CHOOSE ot \in {remoteTypes[i] : i \in 1..Len(remoteTypes)} : ot.id = id

\* C23: attributes are requested for the first 10 object types at most, one
\* request each, and a failed attribute fetch does not abort the resolution:
\* the context returned and cached names every object type of the remote
\* service and has the attributes of every type whose fetch succeeded
C23_BestEffortAttributes ==
  \A r \in Requests :
    LET fetches == attributeFetches[r]
    IN /\ Len(fetches) <= 10
       /\ \A i \in 1..Len(fetches) : fetches[i].objectTypeId = FirstTypes[i].id
       /\ warned[r] => fetches = <<>>
       /\ fetches # <<>> /\ pc[r] \in {"validate", "executing", "done"} =>
            /\ schemaContext[r] # Undefined
            /\ schemaCache[r][req[r].schemaId[1]] # Undefined
            /\ schemaCache[r][req[r].schemaId[1]][1].data = schemaContext[r][1]
            /\ schemaContext[r][1].objectTypes =
                 [i \in 1..Len(remoteTypes) |-> remoteTypes[i].name]
            /\ Len(fetches) = Len(FirstTypes)
            /\ \A i \in 1..Len(fetches) :
                 fetches[i].ok =>
                   LET ot == TypeWithId(fetches[i].objectTypeId)
                   IN /\ ot.name \in DOMAIN schemaContext[r][1].attributes
                      /\ schemaContext[r][1].attributes[ot.name] =
                           [k \in 1..Len(ot.attributes) |-> ot.attributes[k].name]

\* a schema of eleven object types was resolved with a failed attribute
\* fetch followed by a successful one: ten fetches, eleven names
C23_Witness ==
  \E r \in Requests :
    /\ pc[r] = "validate"
    /\ Len(remoteTypes) > 10
    /\ Len(attributeFetches[r]) = 10
    /\ Len(schemaContext[r][1].objectTypes) = Len(remoteTypes)
    /\ \E i \in 1..9 : /\ ~attributeFetches[r][i].ok
                       /\ attributeFetches[r][i + 1].ok

\* C24: when waitForInitialization() has resolved and listResources has
\* read getAllSchemas(), the initialization the constructor started is not
\* still running: the listing has the fetched schemas, not the initial
\* empty list
C24_WaitMeansInitialized ==
  listed # Undefined =>
    /\ task["initialize"].pc \in {"done", "failed"}
    /\ task["initialize"].pc = "done" => listed[1] # <<>>

\* C25: once refreshSchema(id) has completed, the validation cache holds no
\* context for id whose object types were fetched before the refresh was
\* called, whatever the interleaving with getSchemaForValidation(id) calls
\* (a context served from the cache is one the cache holds)
C25_NoStaleContextAfterRefresh ==
  task["refreshSchema"].pc = "done" =>
    \A id \in SchemaIds :
      managerCache[id] # Undefined => ~task[managerCache[id][1].by].early

\* C26: the 'query' operation never runs an auto-fixed candidate: when a
\* query has been dispatched, validation.fixedQuery is absent, the text
\* given to the formatter is the caller's aql, and a successful response
\* has _wasFixed = false
C26_FixNeverExecuted ==
  \A r \in Requests :
    dispatched[r] # <<>> =>
      /\ validation[r] # Undefined
      /\ validation[r][1].fixedQuery = Undefined
      /\ OrElse(validation[r][1].fixedQuery, req[r].aql) = req[r].aql
      /\ response[r] # Undefined /\ response[r][1].kind = "success" =>
           ~response[r][1].wasFixed

\* a query that attemptQueryFix would rewrite was valid, was dispatched and
\* was answered successfully
C26_Witness ==
  \E r \in Requests :
    /\ dispatched[r] # <<>>
    /\ attemptQueryFix(req[r].aql) # Undefined
    /\ response[r] # Undefined
    /\ response[r][1].kind = "success"

\* the positions of the double quotes of s
QuotePositions(s) == {i \in 1..Len(s) : s[i] = "\""}

\* the double-quoted literals of s, quotes included: from every quote with
\* an even number of quotes before it to the next quote
QuotedLiterals(s) ==
  {SubSeq(s, i, CHOOSE j \in QuotePositions(s) :
                  /\ j > i
                  /\ \A k \in QuotePositions(s) : k > i => j <= k) :
     i \in {q \in QuotePositions(s) :
              /\ Cardinality({k \in QuotePositions(s) : k < q}) % 2 = 0
              /\ \E j \in QuotePositions(s) : j > q}}

\* C27: for a query with balanced double quotes, every double-quoted literal
\* of the query is in the output of formatAqlForRequest(x, true), character
\* for character
C27_QuotedTextUnchanged ==
  step = "formatted" /\ CountChar(query, "\"") % 2 = 0 =>
    \A lit \in QuotedLiterals(query) : Includes(formatted[1], lit)

TwoCharOperators ==
  {<<">", "=">>, <<"<", "=">>, <<"!", "=">>, <<"=", "=">>}

\* C28: wherever the query has >=, <=, != or ==, the output of
\* formatAqlForRequest(x, true) has the same two characters next to each
\* other
C28_TwoCharOperatorsKept ==
  step = "formatted" =>
    \A op \in TwoCharOperators :
      Includes(query, op) => Includes(formatted[1], op)

\* C29: a query that validateAqlQuery accepts is still accepted after
\* formatAqlForRequest(x, true)
C29_FormatPreservesValidity ==
  step = "checked" /\ result[1].isValid => revalidation[1].isValid

\* C30: every query of the examples getExampleQueriesWithContext returns
\* and of complexExamples is valid for validateAqlQuery without a schema
\* context
C30_ExamplesAreValid ==
  step = "validated" /\ context = Undefined => result[1].isValid

====
